---- MODULE Spec2Model ----
(***************************************************************************)
(* Autosend decision engine and message lifecycle of lll-api.              *)
(*                                                                         *)
(*   app/decisions.py       should_autosend, within_business_hours,        *)
(*                          _env_true                                      *)
(*   app/jobs.py            send_message_and_update, _finalize_send,       *)
(*                          on_client_upload, on_all_docs_received,        *)
(*                          react_to_inbound                               *)
(*   app/routes_messages.py approve_and_send, draft_initial                *)
(*   app/routes_docs.py     kickoff_docs_request                           *)
(*   app/routes_webhooks.py sendgrid_inbound                               *)
(*                                                                         *)
(* Encoding.  A dict key that may be missing is an option set: {} when the *)
(* key is absent, {v} when it is present with value v.  Instants are       *)
(* seconds since a UTC midnight.  Confidence and threshold are hundredths  *)
(* (0.85 is 85).  cooldown_hours is a whole number of hours.               *)
(***************************************************************************)
EXTENDS Integers, Sequences, FiniteSets, TLC

VARIABLES
    ctx,        \* decisions.py: the ctx dict handed to should_autosend
    env,        \* decisions.py: os.environ as read by _env_true
    verdict,    \* decisions.py: the triple returned by should_autosend
    dpc,        \* "input" before the call, "done" after it
    prior,      \* the triple returned by the call before the last one
    settings,   \* process configuration: DEMO_SEND, INLINE_APPROVE_SEND
    org,        \* table org_settings (its single row)
    contacts,   \* table contacts: contact id -> row
    messages,   \* table messages: sequence of rows, id = position
    timeline,   \* table timeline: sequence of rows in insertion order
    queue,      \* RQ queue "outbound": delivery jobs waiting for a worker
    scheduled,  \* rq scheduler: delivery jobs waiting for their instant
    ex,         \* the executors of send_message_and_update and their locals
    outbox,     \* what the provider was asked to send, in call order
    job_log,    \* what each run of send_message_and_update ended with
    msgids,     \* number of Message-IDs made by _make_message_id so far
    now,        \* the wall clock (UTC seconds)
    calls,      \* number of triggers served so far
    dispatch,   \* the dispatches that reached should_autosend, in call
                \* order, each with what its call site then asked of the queue
    inbox,      \* inbound messages whose react_to_inbound job is queued
    approvals   \* what each call of approve_and_send answered, in call order

dvars == <<ctx, env, verdict, dpc, prior>>
tvars == <<dispatch, inbox>>
lvars == <<settings, org, contacts, messages, timeline, queue, scheduled,
           ex, outbox, job_log, msgids, now, calls, dispatch, inbox,
           approvals>>
vars == <<ctx, env, verdict, dpc, prior, settings, org, contacts, messages, timeline,
          queue, scheduled, ex, outbox, job_log, msgids, now, calls, dispatch,
          inbox, approvals>>

----------------------------------------------------------------------------
(* Python helpers *)

\* dict.get(key, default)
Get(opt, default) == IF opt = {} THEN default ELSE CHOOSE v \in opt : TRUE

SecondsPerHour == 3600
SecondsPerDay == 86400

\* decisions.py:7
_TRUEY == {"1", "true", "yes", "on"}

\* faulty variant: the value is lowercased but not stripped
StripLower_LowerOnly(raw) ==
    CASE raw = "TRUE"  -> "true"
      [] raw = "Yes"   -> "yes"
      [] OTHER         -> raw

\* str(...).strip().lower() on the raw values an environment variable takes
StripLower(raw) ==
    CASE raw = "TRUE"  -> "true"
      [] raw = " on "  -> "on"
      [] raw = "Yes"   -> "yes"
      [] OTHER         -> raw

\* decisions.py:10-11
_env_true(e, name) == StripLower(e[name]) \in _TRUEY

\* the day the inputs of the decision engine fall on
NowDay == 2

\* pytz.timezone(name): the zones the model knows; any other name raises
\* UnknownTimeZoneError
KnownZones == {"America/Los_Angeles", "UTC"}

\* the instant America/Los_Angeles goes from standard to daylight time:
\* 02:00 PST (10:00 UTC) of day NowDay
DstStartUtc == NowDay * SecondsPerDay + 10 * SecondsPerHour

\* the UTC offset in hours that tz.utcoffset gives at the instant utc
UtcOffsetHours(tzname, utc) ==
    CASE tzname = "America/Los_Angeles" -> IF utc < DstStartUtc THEN -8 ELSE -7
      [] tzname = "UTC"                 -> 0

\* datetime.hour of a local wall-clock instant
HourOf(local) == (local % SecondsPerDay) \div SecondsPerHour

\* decisions.py:14-15
within_business_hours(now_local, start_h, end_h) ==
    start_h <= HourOf(now_local) /\ HourOf(now_local) < end_h

\* the (allowed, meta, when) triple; raised marks an exception instead
Ret(allowed, reason, when) ==
    [raised |-> FALSE, allowed |-> allowed, reasons |-> <<reason>>, when |-> when]
Raise == [raised |-> TRUE, allowed |-> FALSE, reasons |-> <<>>, when |-> {}]
NoVerdict == [raised |-> FALSE, allowed |-> FALSE, reasons |-> <<>>, when |-> {}]

----------------------------------------------------------------------------
(* decisions.py:18-117 *)

\* faulty variant: the grace period is added in seconds instead of minutes
BusinessHoursAndGrace_GraceSeconds(s, now_utc) ==
    LET tzname  == Get(s.business_hours_tz, "America/Los_Angeles")
        start_h == Get(s.business_hours_start, 8)
        end_h   == Get(s.business_hours_end, 18)
    IN  IF tzname \notin KnownZones THEN Raise
        ELSE
        LET off       == UtcOffsetHours(tzname, now_utc) * SecondsPerHour
            local_now == now_utc + off
            midnight  == local_now - (local_now % SecondsPerDay)
            at_start  == midnight + start_h * SecondsPerHour
            send_time == IF HourOf(local_now) >= end_h
                         THEN at_start + SecondsPerDay ELSE at_start
            grace_min == Get(s.grace_minutes, 0)
        IN  IF ~within_business_hours(local_now, start_h, end_h)
            THEN Ret(TRUE, "scheduled_for_business_hours", {send_time - off})
            ELSE IF grace_min > 0
                 THEN Ret(TRUE, "grace_period", {now_utc + grace_min})
                 ELSE Ret(TRUE, "immediate_autosend", {})

\* faulty variant: after closing time the opening hour of the same day is
\* returned instead of the next day's
BusinessHoursAndGrace_SameDay(s, now_utc) ==
    LET tzname  == Get(s.business_hours_tz, "America/Los_Angeles")
        start_h == Get(s.business_hours_start, 8)
        end_h   == Get(s.business_hours_end, 18)
    IN  IF tzname \notin KnownZones THEN Raise
        ELSE
        LET off       == UtcOffsetHours(tzname, now_utc) * SecondsPerHour
            local_now == now_utc + off
            midnight  == local_now - (local_now % SecondsPerDay)
            send_time == midnight + start_h * SecondsPerHour
            grace_min == Get(s.grace_minutes, 0)
        IN  IF ~within_business_hours(local_now, start_h, end_h)
            THEN Ret(TRUE, "scheduled_for_business_hours", {send_time - off})
            ELSE IF grace_min > 0
                 THEN Ret(TRUE, "grace_period", {now_utc + grace_min * 60})
                 ELSE Ret(TRUE, "immediate_autosend", {})

\* decisions.py:98-117
BusinessHoursAndGrace(s, now_utc) ==
    LET tzname  == Get(s.business_hours_tz, "America/Los_Angeles")
        start_h == Get(s.business_hours_start, 8)
        end_h   == Get(s.business_hours_end, 18)
    IN  IF tzname \notin KnownZones THEN Raise
        ELSE
        \* local_now carries the offset in force at now_utc; replace() and
        \* "+ timedelta" keep that tzinfo, astimezone(pytz.utc) subtracts it
        LET off       == UtcOffsetHours(tzname, now_utc) * SecondsPerHour
            local_now == now_utc + off
            midnight  == local_now - (local_now % SecondsPerDay)
            at_start  == midnight + start_h * SecondsPerHour
            send_time == IF HourOf(local_now) >= end_h
                         THEN at_start + SecondsPerDay ELSE at_start
            grace_min == Get(s.grace_minutes, 0)
        IN  IF ~within_business_hours(local_now, start_h, end_h)
            THEN Ret(TRUE, "scheduled_for_business_hours", {send_time - off})
            ELSE IF grace_min > 0
                 THEN Ret(TRUE, "grace_period", {now_utc + grace_min * 60})
                 ELSE Ret(TRUE, "immediate_autosend", {})

\* decisions.py:51
OnDnc(c) == Get(c.dnc, FALSE)

\* faulty variant: the org-level flag is not consulted
ForceFollowup_EnvOnly(s, is_initial, e) ==
    (~is_initial) /\ _env_true(e, "AUTOSEND_FOLLOWUPS_ALWAYS")

\* decisions.py:57-59
ForceFollowup(s, is_initial, e) ==
    (~is_initial)
    /\ (_env_true(e, "AUTOSEND_FOLLOWUPS_ALWAYS")
        \/ Get(s.autosend_all_followups, FALSE))

\* faulty variant: the environment flag is not consulted
ForceInitial_NoEnv(s, is_initial, e) ==
    is_initial /\ ~Get(s.require_approval_initial, TRUE)

\* decisions.py:65
ForceInitial(s, is_initial, e) ==
    is_initial
    /\ (_env_true(e, "AUTOSEND_INITIAL_ALWAYS")
        \/ ~Get(s.require_approval_initial, TRUE))

\* faulty variant: a limit of 0 is enforced instead of switching the rule off
DailyLimitReached_NoZeroGuard(s, c) ==
    Get(c.sends_today, 0) >= Get(s.max_daily_sends, 2)

\* faulty variant: sends_today equal to the limit still passes
DailyLimitReached_Strict(s, c) ==
    LET max_daily == Get(s.max_daily_sends, 2)
    IN  Get(c.sends_today, 0) > max_daily /\ max_daily > 0

\* decisions.py:70-71
DailyLimitReached(s, c) ==
    LET max_daily == Get(s.max_daily_sends, 2)
    IN  Get(c.sends_today, 0) >= max_daily /\ max_daily > 0

\* faulty variant: the window is taken in minutes instead of hours
CooldownActive_Minutes(s, c, now_utc) ==
    LET cool_hours == Get(s.cooldown_hours, 22)
    IN  /\ c.last_sent_at # {}
        /\ cool_hours > 0
        /\ now_utc - Get(c.last_sent_at, 0) < cool_hours * 60

\* decisions.py:76-80
CooldownActive(s, c, now_utc) ==
    LET cool_hours == Get(s.cooldown_hours, 22)
    IN  /\ c.last_sent_at # {}
        /\ cool_hours > 0
        /\ now_utc - Get(c.last_sent_at, 0) < cool_hours * SecondsPerHour

\* faulty variant: every value but True fails, a missing key included
ComplianceFailed_NotTrue(m) == m.compliance_ok # {TRUE}

\* decisions.py:86
ComplianceFailed(m) == m.compliance_ok = {FALSE}

\* faulty variant: a confidence equal to the threshold is denied
ConfidenceBelow_Inclusive(s, m) ==
    Get(m.confidence, 100) <= Get(s.autosend_confidence_threshold, 85)

\* decisions.py:92-94
ConfidenceBelow(s, m) ==
    Get(m.confidence, 100) < Get(s.autosend_confidence_threshold, 85)

\* faulty variant: the compliance gate is tested before the daily limit and cooldown
Gates_ComplianceFirst(x) ==
    IF ComplianceFailed(x.drafted)
    THEN Ret(FALSE, "compliance_failed", {})
    ELSE IF DailyLimitReached(x.org, x.contact)
    THEN Ret(FALSE, "daily_limit_reached", {})
    ELSE IF CooldownActive(x.org, x.contact, x.now_utc)
    THEN Ret(FALSE, "cooldown_active", {})
    ELSE IF ConfidenceBelow(x.org, x.drafted)
    THEN Ret(FALSE, "confidence_below_threshold", {})
    ELSE BusinessHoursAndGrace(x.org, x.now_utc)

\* decisions.py:69-117
Gates(x) ==
    IF DailyLimitReached(x.org, x.contact)
    THEN Ret(FALSE, "daily_limit_reached", {})
    ELSE IF CooldownActive(x.org, x.contact, x.now_utc)
    THEN Ret(FALSE, "cooldown_active", {})
    ELSE IF ComplianceFailed(x.drafted)
    THEN Ret(FALSE, "compliance_failed", {})
    ELSE IF ConfidenceBelow(x.org, x.drafted)
    THEN Ret(FALSE, "confidence_below_threshold", {})
    ELSE BusinessHoursAndGrace(x.org, x.now_utc)

\* decisions.py:55-117
Overrides(x, e) ==
    IF ForceFollowup(x.org, x.is_initial, e)
    THEN Ret(TRUE, "force_followup_autosend", {})
    ELSE IF ForceInitial(x.org, x.is_initial, e)
    THEN Ret(TRUE, "initial_no_approval", {})
    ELSE Gates(x)

\* faulty variant: the follow-up override is tested before the DNC stop
should_autosend_ForceBeforeDnc(x, e) ==
    IF ForceFollowup(x.org, x.is_initial, e)
    THEN Ret(TRUE, "force_followup_autosend", {})
    ELSE IF OnDnc(x.contact)
    THEN Ret(FALSE, "contact_on_dnc", {})
    ELSE Overrides(x, e)

\* decisions.py:18-117
should_autosend(x, e) ==
    IF OnDnc(x.contact)
    THEN Ret(FALSE, "contact_on_dnc", {})
    ELSE Overrides(x, e)

----------------------------------------------------------------------------
(* The store, the queue and the executors *)

MaxSendsToday == 2
MaxContacts == 1
MaxMessages == 3
MaxCalls == 2
MaxTicks == 1
NumWorkers == 2
NumHandlers == 1
TickSeconds == 3600

ContactIds == 1..MaxContacts
Workers == 1..NumWorkers
Handlers == (NumWorkers + 1)..(NumWorkers + NumHandlers)
Executors == Workers \cup Handlers

\* the clock at start: 20:30 UTC, 13:30 in America/Los_Angeles
StartInstant == NowDay * SecondsPerDay + 20 * SecondsPerHour + 1800

\* jobs.py:93-102
OrgDefaults ==
    [require_approval_initial      |-> {TRUE},
     autosend_confidence_threshold |-> {85},
     business_hours_tz             |-> {"America/Los_Angeles"},
     business_hours_start          |-> {8},
     business_hours_end            |-> {18},
     cooldown_hours                |-> {22},
     max_daily_sends               |-> {2},
     grace_minutes                 |-> {5}]

\* rows the org_settings table may hold
OrgRows ==
    {OrgDefaults,
     [OrgDefaults EXCEPT !.grace_minutes = {0}, !.cooldown_hours = {0}]}

\* an executor that runs no job
Idle ==
    [pc |-> "idle", message_id |-> 0, channel |-> "EMAIL", contact_id |-> 0,
     email |-> {}, phone |-> {}, subject |-> <<>>, parent_pmid |-> {},
     new_msgid |-> 0, result |-> "none", seen |-> 0, inline |-> FALSE,
     conn |-> "closed"]

NoCtx ==
    [org |-> [OrgDefaults EXCEPT !.grace_minutes = {}],
     contact |-> [dnc |-> {FALSE}, sends_today |-> {0}, last_sent_at |-> {}],
     drafted |-> [compliance_ok |-> {}, confidence |-> {}],
     is_initial |-> FALSE,
     now_utc |-> StartInstant]

\* an empty database, an empty queue, no job running
LifeAtRest ==
    /\ settings = [DEMO_SEND |-> FALSE, INLINE_APPROVE_SEND |-> TRUE]
    /\ org = OrgDefaults
    /\ contacts = [c \in ContactIds |->
                     [dnc |-> FALSE, last_sent_at |-> {}, sends_today |-> 0,
                      email |-> {}, phone |-> {}]]
    /\ messages = <<>>
    /\ timeline = <<>>
    /\ queue = <<>>
    /\ scheduled = {}
    /\ ex = [e \in Executors |-> Idle]
    /\ outbox = <<>>
    /\ job_log = <<>>
    /\ msgids = 0
    /\ now = StartInstant
    /\ calls = 0
    /\ dispatch = <<>>
    /\ inbox = {}
    /\ approvals = <<>>

----------------------------------------------------------------------------
(* Inputs of the decision engine.  One group of fields at a time (the      *)
(* focus) ranges over its boundary values while the other groups range     *)
(* over one matching and one non-matching value of their rule.             *)

Opt(S) == {{}} \cup {{v} : v \in S}

EnvValues == {"", "TRUE"}
EnvSet == [AUTOSEND_FOLLOWUPS_ALWAYS : EnvValues, AUTOSEND_INITIAL_ALWAYS : EnvValues]

Dom(focus, g, rich, coarse) == IF focus = g THEN rich ELSE coarse

\* (max_daily_sends, sends_today)
DailyRich == Opt({0, 1}) \X (0..MaxSendsToday)
DailyCoarse == {<<{1}, 0>>, <<{1}, 1>>}

\* (cooldown_hours, seconds by which last_sent_at lies inside the window;
\*  {} is a contact never sent to)
CoolRich == Opt({0, 1}) \X Opt({-1, 0, 1})
CoolCoarse == {<<{1}, {}>>, <<{1}, {1}>>}

\* (compliance_ok, confidence, autosend_confidence_threshold)
QualityRich == Opt({TRUE, FALSE}) \X Opt({84, 85}) \X Opt({90})
QualityCoarse == {<<{}, {90}, {}>>, <<{FALSE}, {90}, {}>>, <<{}, {50}, {}>>}

\* (business_hours_tz, (start, end), UTC hour of day, grace_minutes)
HoursRich ==
    Opt({"UTC", "Mars/Phobos"}) \X {<<{}, {}>>, <<{9}, {17}>>}
        \X {2, 4, 11, 15, 17} \X Opt({0, 5})
HoursCoarse ==
    {<<{}, <<{}, {}>>, 20, {5}>>, <<{}, <<{}, {}>>, 9, {5}>>}

Groups == {"daily", "cooldown", "quality", "hours"}

MkCtx(dnc, ini, orgF, req, d, k, q, h) ==
    LET at   == NowDay * SecondsPerDay + h[3] * SecondsPerHour + 1800
        cool == Get(k[1], 22)
    IN  [org |-> [require_approval_initial      |-> req,
                  autosend_all_followups        |-> orgF,
                  max_daily_sends               |-> d[1],
                  cooldown_hours                |-> k[1],
                  autosend_confidence_threshold |-> q[3],
                  business_hours_tz             |-> h[1],
                  business_hours_start          |-> h[2][1],
                  business_hours_end            |-> h[2][2],
                  grace_minutes                 |-> h[4]],
         contact |-> [dnc          |-> {dnc},
                      sends_today  |-> {d[2]},
                      last_sent_at |->
                          IF k[2] = {} THEN {}
                          ELSE {at - cool * SecondsPerHour + Get(k[2], 0)}],
         drafted |-> [compliance_ok |-> q[1], confidence |-> q[2]],
         is_initial |-> ini,
         now_utc    |-> at]

\* the inputs whose focus is one of the groups in focuses
DecideInputs(focuses) ==
    /\ \E f \in focuses, dnc \in BOOLEAN, ini \in BOOLEAN,
          orgF \in {{}, {TRUE}}, req \in Opt({TRUE, FALSE}) :
         \E d \in Dom(f, "daily", DailyRich, DailyCoarse),
            k \in Dom(f, "cooldown", CoolRich, CoolCoarse),
            q \in Dom(f, "quality", QualityRich, QualityCoarse),
            h \in Dom(f, "hours", HoursRich, HoursCoarse) :
              ctx = MkCtx(dnc, ini, orgF, req, d, k, q, h)
    /\ env \in EnvSet
    /\ verdict = NoVerdict
    /\ prior = NoVerdict
    /\ dpc = "input"
    /\ LifeAtRest

InitDecide == DecideInputs(Groups)

\* one call of should_autosend
Evaluate ==
    /\ dpc = "input"
    /\ verdict' = should_autosend(ctx, env)
    /\ dpc' = "done"
    /\ UNCHANGED <<ctx, env, prior>>
    /\ UNCHANGED lvars

NextDecide == Evaluate

SpecDecide == InitDecide /\ [][NextDecide]_vars

----------------------------------------------------------------------------
(* A second call of should_autosend, with one part of its input changed *)

\* the confidence values a redrafted message may come with
ConfidenceLevels == {85, 90, 100}

\* the draft was denied for its confidence; it comes back with a confidence
\* cf of at least the threshold and everything else as before
RaiseConfidence(cf) ==
    /\ dpc = "done"
    /\ verdict.reasons = <<"confidence_below_threshold">>
    /\ cf >= Get(ctx.org.autosend_confidence_threshold, 85)
    /\ ctx' = [ctx EXCEPT !.drafted.confidence = {cf}]
    /\ verdict' = should_autosend(ctx', env)
    /\ prior' = verdict
    /\ dpc' = "raised"
    /\ UNCHANGED env
    /\ UNCHANGED lvars

InitMono == DecideInputs({"quality"})

NextMono ==
    \/ Evaluate
    \/ \E cf \in ConfidenceLevels : RaiseConfidence(cf)

SpecMono == InitMono /\ [][NextMono]_vars

\* the same ctx is evaluated again in a process started with other values
\* of the two environment variables
EnvRestarts ==
    [AUTOSEND_FOLLOWUPS_ALWAYS : {"0", " on "},
     AUTOSEND_INITIAL_ALWAYS   : {"0", "Yes"}]

Restart(e2) ==
    /\ dpc = "done"
    /\ env' = e2
    /\ verdict' = should_autosend(ctx, e2)
    /\ prior' = verdict
    /\ dpc' = "again"
    /\ UNCHANGED ctx
    /\ UNCHANGED lvars

InitEnv == DecideInputs({"quality"})

NextEnv ==
    \/ Evaluate
    \/ \E e2 \in EnvRestarts : Restart(e2)

SpecEnv == InitEnv /\ [][NextEnv]_vars

\* routes_docs.py:115-123, jobs.py:93-102: the defaults the callers fill in
\* for the fields the org_settings row does not give
Completed(s) ==
    [s EXCEPT
       !.require_approval_initial      = IF @ = {} THEN {TRUE} ELSE @,
       !.autosend_confidence_threshold = IF @ = {} THEN {85} ELSE @,
       !.business_hours_tz             = IF @ = {} THEN {"America/Los_Angeles"} ELSE @,
       !.business_hours_start          = IF @ = {} THEN {8} ELSE @,
       !.business_hours_end            = IF @ = {} THEN {18} ELSE @,
       !.cooldown_hours                = IF @ = {} THEN {22} ELSE @,
       !.max_daily_sends               = IF @ = {} THEN {2} ELSE @,
       !.grace_minutes                 = IF @ = {} THEN {5} ELSE @]

\* the same ctx is evaluated again with its org dict completed
Complete ==
    /\ dpc = "done"
    /\ ctx.org # Completed(ctx.org)
    /\ ctx' = [ctx EXCEPT !.org = Completed(ctx.org)]
    /\ verdict' = should_autosend(ctx', env)
    /\ prior' = verdict
    /\ dpc' = "completed"
    /\ UNCHANGED env
    /\ UNCHANGED lvars

NextDefaults ==
    \/ Evaluate
    \/ Complete

SpecDefaults == InitDecide /\ [][NextDefaults]_vars

----------------------------------------------------------------------------
(* Strings the handlers compute with *)

\* str.lower() of the first word of a subject
LowerWord(w) == IF w \in {"Re:", "RE:", "re:"} THEN "re:" ELSE w

\* subject.lower().startswith("re:"); a subject is its sequence of words
StartsWithRe(subject) == subject # <<>> /\ LowerWord(subject[1]) = "re:"

\* f"Re: {subject}"
PrefixRe(subject) == <<"Re:">> \o subject

\* x or default, for an optional value: None and "" are both falsy
OrElse(opt, default) ==
    IF opt = {} \/ opt = {<<>>} THEN default ELSE Get(opt, default)

----------------------------------------------------------------------------
(* jobs.py: queries *)

MsgIds == 1..Len(messages)

\* jobs.py:119-135: the most recently created message of the contact that
\* carries a provider_message_id, as (pmid, subj); {} when there is none
_latest_provider_msgid_and_subject(contact_id) ==
    LET with == {i \in MsgIds : /\ messages[i].contact_id = contact_id
                                /\ messages[i].meta.provider_message_id # {}}
    IN  IF with = {} THEN {}
        ELSE LET i == CHOOSE j \in with : \A k \in with : k <= j
             IN  {[pmid |-> messages[i].meta.provider_message_id,
                   subj |-> messages[i].meta.subject]}

\* jobs.py:303-312: the subject of the earliest message of the contact that
\* has one
EarliestSubject(contact_id) ==
    LET with == {i \in MsgIds : /\ messages[i].contact_id = contact_id
                                /\ messages[i].meta.subject # {}}
    IN  IF with = {} THEN {}
        ELSE messages[CHOOSE j \in with : \A k \in with : j <= k].meta.subject

\* the org dict the dispatch call sites build from the org_settings row
\* (jobs.py:483-492); autosend_all_followups is never passed
OrgCtx(row) ==
    [require_approval_initial      |-> row.require_approval_initial,
     autosend_confidence_threshold |-> row.autosend_confidence_threshold,
     business_hours_tz             |-> row.business_hours_tz,
     business_hours_start          |-> row.business_hours_start,
     business_hours_end            |-> row.business_hours_end,
     cooldown_hours                |-> row.cooldown_hours,
     max_daily_sends               |-> row.max_daily_sends,
     grace_minutes                 |-> row.grace_minutes,
     autosend_all_followups        |-> {}]

\* jobs.py:481-502: the ctx of a dispatch
DispatchCtx(c, drafted, is_initial) ==
    [org |-> OrgCtx(org),
     contact |-> [dnc          |-> {contacts[c].dnc},
                  last_sent_at |-> contacts[c].last_sent_at,
                  sends_today  |-> {contacts[c].sends_today}],
     drafted |-> drafted,
     is_initial |-> is_initial,
     now_utc |-> now]

Note(c, detail) ==
    [contact_id |-> c, type |-> "NOTE", detail |-> detail,
     message_id |-> 0, reasons |-> <<>>]

\* faulty variant: the decision row is written without the verdict's reasons
Decision_NoReasons(c, draft_id, v) ==
    [contact_id |-> c, type |-> "AUTO_SEND_DECISION", detail |-> "",
     message_id |-> draft_id, reasons |-> <<>>]

\* jobs.py:504-507
Decision(c, draft_id, v) ==
    [contact_id |-> c, type |-> "AUTO_SEND_DECISION", detail |-> "",
     message_id |-> draft_id, reasons |-> v.reasons]

Job(message_id, channel) == [message_id |-> message_id, channel |-> channel]

----------------------------------------------------------------------------
(* Triggers *)

Draft(c, meta) ==
    [contact_id |-> c, channel |-> "EMAIL", direction |-> "DRAFT",
     body |-> "generated", meta |-> meta]

\* a trigger that changes nothing in the store (early return or HTTP error)
Served ==
    /\ calls' = calls + 1
    /\ UNCHANGED <<settings, org, contacts, messages, timeline, queue,
                   scheduled, ex, outbox, job_log, msgids, now>>
    /\ UNCHANGED tvars

\* routes_messages.py:105-148 (_draft_initial_docs_request): an initial
\* draft is stored for review, without a decision
DraftInitialDocs(c) ==
    /\ calls < MaxCalls
    /\ Len(messages) < MaxMessages
    /\ IF contacts[c].dnc
       THEN Served
       ELSE /\ messages' = Append(messages,
                  Draft(c, [intent |-> "initial_docs_request",
                            subject |-> {<<"Document Request">>},
                            reply_to_message_id |-> {},
                            provider_message_id |-> {},
                            confidence |-> {92}]))
            /\ timeline' = Append(timeline,
                                  Note(c, "Drafted initial docs request (AI)"))
            /\ calls' = calls + 1
            /\ UNCHANGED <<settings, org, contacts, queue, scheduled, ex,
                           outbox, job_log, msgids, now>>
    /\ UNCHANGED <<dvars, approvals>>
    /\ UNCHANGED tvars

----------------------------------------------------------------------------
(* The dispatch call sites: draft, decide, record the decision, commit;    *)
(* then, in a second step, ask the queue or the scheduler                  *)

Sites == {"upload", "all_docs", "inbound", "draft_initial", "kickoff"}
InitialSites == {"draft_initial", "kickoff"}

\* followups.py:245, 385: the confidence of a draft the LLM wrote (0.98) and
\* of the fallback text (0.75)
DraftConfidences == {98, 75}

\* jobs.py:690-691: (prev and prev["pmid"]) or None
ReplyTo(c) ==
    LET prev == _latest_provider_msgid_and_subject(c)
    IN  IF prev = {} THEN {} ELSE Get(prev, 0).pmid

\* jobs.py:692-693: the subject of the thread, "Re: "-prefixed once
ThreadSubject(c, fallback) ==
    LET prev  == _latest_provider_msgid_and_subject(c)
        subj0 == IF prev = {} THEN fallback ELSE OrElse(Get(prev, 0).subj, fallback)
    IN  IF StartsWithRe(subj0) THEN subj0 ELSE PrefixRe(subj0)

\* the meta of the draft each call site stores
SiteMeta(site, c, conf) ==
    CASE site = "upload" ->
            [intent |-> "upload_ack",
             subject |-> {ThreadSubject(c, <<"Documents for your case">>)},
             reply_to_message_id |-> ReplyTo(c),
             provider_message_id |-> {}, confidence |-> {92}]
      [] site = "all_docs" ->
            [intent |-> "all_docs_received",
             subject |-> {ThreadSubject(c, <<"Documents for your case">>)},
             reply_to_message_id |-> ReplyTo(c),
             provider_message_id |-> {}, confidence |-> {}]
      [] site = "inbound" ->
            [intent |-> "inbound_ack",
             subject |-> {ThreadSubject(c, <<"Regarding your case">>)},
             reply_to_message_id |-> ReplyTo(c),
             provider_message_id |-> {}, confidence |-> {conf}]
      [] site = "draft_initial" ->
            [intent |-> "initial_docs_request",
             subject |-> {<<"Document Request">>},
             reply_to_message_id |-> {},
             provider_message_id |-> {}, confidence |-> {92}]
      [] site = "kickoff" ->
            [intent |-> "initial_docs_request",
             subject |-> {<<"Document Request">>},
             reply_to_message_id |-> ReplyTo(c),
             provider_message_id |-> {}, confidence |-> {conf}]

\* the "drafted" dict each call site hands to should_autosend
SiteDrafted(site, conf) ==
    [compliance_ok |-> {},
     confidence |-> CASE site = "upload"        -> {92}
                      [] site = "all_docs"      -> {100}
                      [] site = "draft_initial" -> {92}
                      [] OTHER                  -> {conf}]

\* the NOTE rows each call site writes with its draft
SiteNotes(site, c) ==
    CASE site = "upload"        -> <<Note(c, "Drafted upload ack with remaining needs")>>
      [] site = "all_docs"      -> <<Note(c, "All docs received draft created")>>
      [] site = "inbound"       -> <<>>
      [] site = "draft_initial" -> <<Note(c, "Drafted initial docs request (AI)")>>
      [] site = "kickoff"       -> <<Note(c, "Initial docs request drafted (AI)")>>

\* faulty variant: a denied dispatch goes on to the enqueue step
Verdict_AlwaysRequests(site, c, draft_id, v) ==
    [site |-> site, contact_id |-> c, draft_id |-> draft_id,
     allowed |-> v.allowed, reasons |-> v.reasons, when |-> v.when,
     now_utc |-> now, stage |-> "decided",
     at |-> "none", at_when |-> {}, imm |-> "none", req_now |-> {},
     failure |-> "none"]

\* what a call site holds when its decision is committed: the verdict and
\* the now_utc it was taken at.  stage: "done" at "if not allowed: return",
\* else "decided" until the enqueue step has run; "raised" when
\* should_autosend raised, draft_id then being the id the draft was given.  at, imm: what became of
\* enqueue_at and of enqueue ("none": not called); at_when: the instant
\* handed to enqueue_at; req_now: the instant "when" was compared with;
\* failure: what became of the exception that left the draft without a job
\* ("raised": it leaves the handler; "swallowed": except ... pass).
Verdict(site, c, draft_id, v) ==
    [site |-> site, contact_id |-> c, draft_id |-> draft_id,
     allowed |-> v.allowed, reasons |-> v.reasons, when |-> v.when,
     now_utc |-> now,
     stage |-> IF v.raised THEN "raised"
               ELSE IF v.allowed THEN "decided" ELSE "done",
     at |-> "none", at_when |-> {}, imm |-> "none", req_now |-> {},
     failure |-> IF v.raised THEN "raised" ELSE "none"]

\* faulty variant: the verdict is handed on while the transaction that
\* inserts the draft and its notes is still open
Decide_Uncommitted(site, c, conf) ==
    LET draft_id == Len(messages) + 1
        v == should_autosend(
                 DispatchCtx(c, SiteDrafted(site, conf), site \in InitialSites),
                 env)
    IN  /\ dispatch' = Append(dispatch, Verdict(site, c, draft_id, v))
        /\ UNCHANGED <<messages, timeline>>

\* jobs.py:467-508, 711-750, 835-880; routes_messages.py:254-291;
\* routes_docs.py:333-377: the draft, its notes, the verdict and the
\* AUTO_SEND_DECISION row, committed together.  An exception of
\* should_autosend leaves the handler before the commit, so the transaction
\* is rolled back (jobs.py:382, 669, 781: `with _db() as db:`; deps.py: the
\* pool's connection block); in draft_initial the draft and its note are
\* committed before the decision (routes_messages.py:149) and stay.
Decide(site, c, conf) ==
    LET draft_id == Len(messages) + 1
        v == should_autosend(
                 DispatchCtx(c, SiteDrafted(site, conf), site \in InitialSites),
                 env)
    IN  /\ dispatch' = Append(dispatch, Verdict(site, c, draft_id, v))
        /\ IF v.raised /\ site # "draft_initial"
           THEN UNCHANGED <<messages, timeline>>
           ELSE /\ messages' = Append(messages, Draft(c, SiteMeta(site, c, conf)))
                /\ timeline' = timeline \o SiteNotes(site, c) \o
                      (IF v.raised THEN <<>> ELSE <<Decision(c, draft_id, v)>>)

\* a trigger that ends in a dispatch, or in an early return when skip holds
Trigger(site, c, conf, skip) ==
    /\ IF skip THEN Served ELSE
          /\ Decide(site, c, conf)
          /\ calls' = calls + 1
          /\ UNCHANGED <<settings, org, contacts, queue, scheduled, ex, outbox,
                         job_log, msgids, now, inbox>>
    /\ UNCHANGED <<dvars, approvals>>

\* faulty variant: the upload handler goes on for a do-not-contact contact
ClientUpload_IgnoresDnc(c) ==
    /\ calls < MaxCalls
    /\ Len(messages) < MaxMessages
    /\ Trigger("upload", c, 92, FALSE)

\* jobs.py:373-511 (on_client_upload)
ClientUpload(c) ==
    /\ calls < MaxCalls
    /\ Len(messages) < MaxMessages
    /\ Trigger("upload", c, 92, contacts[c].dnc)

\* jobs.py:668-753 (on_all_docs_received); still_pending: a required
\* document is still PENDING
AllDocsReceived(c, still_pending) ==
    /\ calls < MaxCalls
    /\ Len(messages) < MaxMessages
    /\ Trigger("all_docs", c, 100, contacts[c].dnc \/ still_pending)

\* routes_messages.py:248-294 (draft_initial)
DraftInitial(c) ==
    /\ calls < MaxCalls
    /\ Len(messages) < MaxMessages
    /\ Trigger("draft_initial", c, 92, contacts[c].dnc)

\* routes_docs.py:286-377 (kickoff_docs_request)
Kickoff(c, conf) ==
    /\ calls < MaxCalls
    /\ Len(messages) < MaxMessages
    /\ Trigger("kickoff", c, conf, contacts[c].dnc)

\* routes_webhooks.py:282-348 (sendgrid_inbound): the inbound message is
\* stored, then react_to_inbound is enqueued; queued says whether that
\* enqueue succeeds
InboundEmail(c, queued) ==
    /\ calls < MaxCalls
    /\ Len(messages) < MaxMessages
    /\ messages' = Append(messages,
          [contact_id |-> c, channel |-> "EMAIL", direction |-> "INBOUND",
           body |-> "received",
           meta |-> [intent |-> "inbound", subject |-> {<<"Question">>},
                     reply_to_message_id |-> {}, provider_message_id |-> {},
                     confidence |-> {}]])
    /\ timeline' = Append(timeline,
          [contact_id |-> c, type |-> "INBOUND",
           detail |-> "Email received via SendGrid",
           message_id |-> 0, reasons |-> <<>>])
    /\ inbox' = IF queued THEN inbox \cup {Len(messages) + 1} ELSE inbox
    /\ calls' = calls + 1
    /\ UNCHANGED <<settings, org, contacts, queue, scheduled, ex, outbox,
                   job_log, msgids, now, dispatch>>
    /\ UNCHANGED <<dvars, approvals>>

Categories == {"DNC", "WRONG_NUMBER", "ALREADY_UPLOADED", "OTHER"}

\* jobs.py:773-883 (react_to_inbound); cat is what classify_inbound returns
ReactToInbound(m, cat, conf) ==
    /\ m \in inbox
    /\ inbox' = inbox \ {m}
    /\ LET c == messages[m].contact_id
       IN  CASE cat = "DNC" ->
                  /\ contacts' = [contacts EXCEPT ![c].dnc = TRUE]
                  /\ timeline' = Append(timeline, Note(c, "Client requested DNC"))
                  /\ UNCHANGED <<messages, dispatch>>
             [] cat = "WRONG_NUMBER" ->
                  /\ contacts' = [contacts EXCEPT ![c].phone = {}]
                  /\ timeline' = Append(timeline, Note(c, "Wrong number reported"))
                  /\ UNCHANGED <<messages, dispatch>>
             [] cat = "ALREADY_UPLOADED" ->
                  /\ timeline' = Append(timeline,
                                        Note(c, "Client says already uploaded"))
                  /\ UNCHANGED <<contacts, messages, dispatch>>
             [] OTHER ->
                  /\ Len(messages) < MaxMessages
                  /\ Decide("inbound", c, conf)
                  /\ UNCHANGED contacts
    /\ UNCHANGED <<settings, org, queue, scheduled, ex, outbox, job_log,
                   msgids, now, calls>>
    /\ UNCHANGED <<dvars, approvals>>

\* faulty variant: the job is put on the queue whatever "when" is
EnqueueSend_Immediate(i, at_ok, now_ok) ==
    /\ queue' = Append(queue, Job(dispatch[i].draft_id, "EMAIL"))
    /\ dispatch' = [dispatch EXCEPT ![i].stage = "done", ![i].imm = "ok",
                                    ![i].req_now = {dispatch[i].now_utc}]
    /\ UNCHANGED scheduled

\* jobs.py:513-527, 755-768, 886-902; routes_messages.py:296-315;
\* routes_docs.py:379-396: enqueue_at(when) if "when" lies ahead, else
\* enqueue; at_ok and now_ok say whether enqueue_at and enqueue succeed.
\* draft_initial compares "when" with a fresh now, the others with the
\* now_utc of the decision.  After a failed enqueue_at every site but
\* kickoff goes on to enqueue; kickoff's single try/except ends there.
\* An exception of q.enqueue leaves on_client_upload, on_all_docs_received
\* and draft_initial; react_to_inbound (jobs.py:900-902) and
\* kickoff_docs_request (routes_docs.py:394-396) catch it and pass.
EnqueueSend(i, at_ok, now_ok) ==
    LET d      == dispatch[i]
        job    == Job(d.draft_id, "EMAIL")
        cmp    == IF d.site = "draft_initial" THEN now ELSE d.now_utc
        future == d.when # {} /\ Get(d.when, 0) > cmp
        tried  == IF future THEN "failed" ELSE "none"
        End(at, at_when, imm, failure) ==
            dispatch' = [dispatch EXCEPT ![i].stage = "done", ![i].at = at,
                                         ![i].at_when = at_when, ![i].imm = imm,
                                         ![i].req_now = {cmp},
                                         ![i].failure = failure]
    IN  IF future /\ at_ok
        THEN /\ scheduled' = scheduled \cup {[when |-> Get(d.when, 0), job |-> job]}
             /\ UNCHANGED queue
             /\ End("ok", d.when, "none", "none")
        ELSE IF future /\ d.site = "kickoff"
        THEN /\ UNCHANGED <<queue, scheduled>>
             /\ End("failed", d.when, "none", "swallowed")
        ELSE IF now_ok
        THEN /\ queue' = Append(queue, job)
             /\ UNCHANGED scheduled
             /\ End(tried, IF future THEN d.when ELSE {}, "ok", "none")
        ELSE /\ UNCHANGED <<queue, scheduled>>
             /\ End(tried, IF future THEN d.when ELSE {}, "failed",
                    IF d.site \in {"inbound", "kickoff"} THEN "swallowed"
                    ELSE "raised")

\* the second step of a dispatch whose verdict allowed the send
Request(i, at_ok, now_ok) ==
    /\ i \in 1..Len(dispatch)
    /\ dispatch[i].stage = "decided"
    /\ EnqueueSend(i, at_ok, now_ok)
    /\ UNCHANGED <<settings, org, contacts, messages, timeline, ex, outbox,
                   job_log, msgids, now, calls, inbox>>
    /\ UNCHANGED <<dvars, approvals>>

----------------------------------------------------------------------------
(* jobs.py:264-368 (send_message_and_update), in its three steps *)

\* faulty variant: the connection of step 1 is kept, its transaction open
ConnAfterWith_Kept == "open"

\* jobs.py:77-80, 271, 325: `with _db() as conn:` ends before step 2;
\* leaving the block ends the transaction and closes the connection
ConnAfterWith == "closed"

\* jobs.py:271-325: step 1, everything read in the first connection; conn
\* is the state of that connection when the function goes on
Load(job, e) ==
    IF job.message_id \notin MsgIds
    THEN [Idle EXCEPT !.result = "message not found"]
    ELSE
    LET m    == messages[job.message_id]
        c    == contacts[m.contact_id]
        base == IF m.meta.subject # {} /\ Get(m.meta.subject, <<>>) # <<>>
                THEN Get(m.meta.subject, <<>>)
                ELSE OrElse(EarliestSubject(m.contact_id), <<"Regarding your case">>)
        subject == IF m.meta.intent # "initial_docs_request" /\ ~StartsWithRe(base)
                   THEN PrefixRe(base) ELSE base
        prev   == _latest_provider_msgid_and_subject(m.contact_id)
        parent == IF m.meta.reply_to_message_id # {}
                  THEN m.meta.reply_to_message_id
                  ELSE IF prev = {} THEN {} ELSE Get(prev, 0).pmid
    IN  [pc |-> "loaded", message_id |-> job.message_id, channel |-> job.channel,
         contact_id |-> m.contact_id, email |-> c.email, phone |-> c.phone,
         subject |-> subject, parent_pmid |-> parent, new_msgid |-> 0,
         result |-> "none", seen |-> Len(job_log), inline |-> e \in Handlers,
         conn |-> ConnAfterWith]

\* what a run of the job returned or raised
\* (seen: how many runs had ended when this one began; flipped: the row
\* was DRAFT when the run set it OUTBOUND; inc: what the run added to
\* sends_today; inline: it was run by a handler, not by a worker)
Outcome(x, outcome, flipped, inc) ==
    [message_id |-> x.message_id, outcome |-> outcome, seen |-> x.seen,
     flipped |-> flipped, inc |-> inc, inline |-> x.inline]

\* faulty variant: the job is taken off the queue and not run
Take_Discards(w) ==
    /\ ex[w].pc = "idle"
    /\ queue # <<>>
    /\ queue' = Tail(queue)
    /\ UNCHANGED <<settings, org, contacts, messages, timeline, scheduled,
                   ex, outbox, job_log, msgids, now, calls>>
    /\ UNCHANGED <<dvars, approvals>>
    /\ UNCHANGED tvars

\* the worker takes the next job of the queue and runs step 1
Take(w) ==
    /\ ex[w].pc = "idle"
    /\ queue # <<>>
    /\ LET x == Load(Head(queue), w)
       IN  IF x.pc = "loaded"
           THEN ex' = [ex EXCEPT ![w] = x] /\ UNCHANGED job_log
           ELSE /\ job_log' = Append(job_log,
                     [message_id |-> Head(queue).message_id,
                      outcome |-> "message not found",
                      seen |-> Len(job_log), flipped |-> FALSE, inc |-> 0,
                      inline |-> FALSE])
                /\ UNCHANGED ex
    /\ queue' = Tail(queue)
    /\ UNCHANGED <<settings, org, contacts, messages, timeline, scheduled,
                   outbox, msgids, now, calls>>
    /\ UNCHANGED <<dvars, approvals>>
    /\ UNCHANGED tvars

\* jobs.py:327-355: steps 2 and 3, the threading headers and the provider
\* call; status is what the provider does with the request
Send(e, status) ==
    /\ ex[e].pc = "loaded"
    /\ msgids' = msgids + 1
    /\ LET x == [ex[e] EXCEPT !.new_msgid = msgids + 1]
           to == IF x.channel = "SMS" THEN x.phone ELSE x.email
       IN  IF settings.DEMO_SEND
           THEN /\ ex' = [ex EXCEPT ![e] = [x EXCEPT !.pc = "sent", !.result = "demo"]]
                /\ UNCHANGED <<outbox, job_log>>
           ELSE IF to = {}
           THEN /\ ex' = [ex EXCEPT ![e] = Idle]
                /\ job_log' = Append(job_log,
                      Outcome(x, IF x.channel = "SMS" THEN "contact has no phone"
                                 ELSE "contact has no email", FALSE, 0))
                /\ UNCHANGED outbox
           ELSE /\ outbox' = Append(outbox,
                      [message_id |-> x.message_id, to |-> to,
                       subject |-> x.subject, in_reply_to |-> x.parent_pmid,
                       msgid |-> x.new_msgid, status |-> status,
                       conn |-> x.conn])
                /\ IF status = "raise"
                   THEN /\ ex' = [ex EXCEPT ![e] = Idle]
                        /\ job_log' = Append(job_log, Outcome(x, "exception", FALSE, 0))
                   ELSE /\ ex' = [ex EXCEPT ![e] =
                                    [x EXCEPT !.pc = "sent", !.result = status]]
                        /\ UNCHANGED job_log
    /\ UNCHANGED <<settings, org, contacts, messages, timeline, queue,
                   scheduled, now, calls>>
    /\ UNCHANGED <<dvars, approvals>>
    /\ UNCHANGED tvars

\* faulty variant: a row that is OUTBOUND already is set back to DRAFT
_finalize_send_Toggles(e) ==
    LET x == ex[e]
        m == x.message_id
    IN  /\ messages' = [messages EXCEPT
              ![m].direction = IF @ = "DRAFT" THEN "OUTBOUND" ELSE "DRAFT",
              ![m].meta.provider_message_id = {x.new_msgid}]
        /\ contacts' = [contacts EXCEPT
              ![x.contact_id].sends_today = @ + 1,
              ![x.contact_id].last_sent_at = {now}]
        /\ timeline' = Append(timeline,
              Note(x.contact_id, "Message sent via worker (threaded)"))

\* faulty variant: the NOTE takes the place of the last row of the timeline
_finalize_send_RewritesNote(e) ==
    LET x == ex[e]
        m == x.message_id
    IN  /\ messages' = [messages EXCEPT
              ![m].direction = "OUTBOUND",
              ![m].meta.provider_message_id = {x.new_msgid}]
        /\ contacts' = [contacts EXCEPT
              ![x.contact_id].sends_today = @ + 1,
              ![x.contact_id].last_sent_at = {now}]
        /\ timeline' = IF timeline = <<>> THEN timeline
                       ELSE [timeline EXCEPT ![Len(timeline)] =
                               Note(x.contact_id, "Message sent via worker (threaded)")]

\* faulty variant: the row is flipped and counted, the NOTE is not written
_finalize_send_NoNote(e) ==
    LET x == ex[e]
        m == x.message_id
    IN  /\ messages' = [messages EXCEPT
              ![m].direction = "OUTBOUND",
              ![m].meta.subject = IF x.subject # <<>> THEN {x.subject} ELSE @,
              ![m].meta.provider_message_id = {x.new_msgid}]
        /\ contacts' = [contacts EXCEPT
              ![x.contact_id].sends_today = @ + 1,
              ![x.contact_id].last_sent_at = {now}]
        /\ UNCHANGED timeline

\* jobs.py:223-259 (_finalize_send): the three statements and the commit
\* of one transaction
_finalize_send(e) ==
    LET x == ex[e]
        m == x.message_id
    IN  /\ messages' = [messages EXCEPT
              ![m].direction = "OUTBOUND",
              ![m].meta.subject = IF x.subject # <<>> THEN {x.subject} ELSE @,
              ![m].meta.provider_message_id = {x.new_msgid}]
        /\ contacts' = [contacts EXCEPT
              ![x.contact_id].sends_today = @ + 1,
              ![x.contact_id].last_sent_at = {now}]
        /\ timeline' = Append(timeline,
              Note(x.contact_id, "Message sent via worker (threaded)"))

\* jobs.py:357-368: step 4, in a new connection; committed says whether
\* the transaction reaches its commit (else the exception leaves the with
\* block, which rolls back, and the job)
Finalize(e, committed) ==
    /\ ex[e].pc = "sent"
    /\ IF committed
       THEN /\ _finalize_send(e)
            /\ job_log' = Append(job_log,
                  Outcome(ex[e], "ok", messages[ex[e].message_id].direction = "DRAFT",
                          contacts'[ex[e].contact_id].sends_today
                              - contacts[ex[e].contact_id].sends_today))
       ELSE /\ job_log' = Append(job_log, Outcome(ex[e], "exception", FALSE, 0))
            /\ UNCHANGED <<messages, contacts, timeline>>
    /\ ex' = [ex EXCEPT ![e] = Idle]
    /\ UNCHANGED <<settings, org, queue, scheduled, outbox, msgids, now, calls>>
    /\ UNCHANGED <<dvars, approvals>>
    /\ UNCHANGED tvars

----------------------------------------------------------------------------
(* routes_messages.py:349-391 (approve_and_send) *)

\* faulty variant: the direction of the row is not looked at
AlreadySent_Never(m) == FALSE

\* routes_messages.py:362-364: the row is not a DRAFT any more
AlreadySent(m) == messages[m].direction # "DRAFT"

\* what a call of approve_and_send answered: "already_sent", "queued",
\* "inline" (queued: False, the job run by the handler itself) or "error"
\* (HTTP 500 "Queue failed"); dnc: the do-not-contact mark the contact of
\* the message carried when the call was made
Approval(m, response) ==
    [message_id |-> m, response |-> response,
     dnc |-> contacts[messages[m].contact_id].dnc]

\* faulty variant: the fallback answers without running the job
InlineSend_Skipped(m, h) == UNCHANGED ex

\* routes_messages.py:380-384: the inline fallback, send_message_and_update
\* called by the handler
InlineSend(m, h) ==
    ex' = [ex EXCEPT ![h] = Load(Job(m, messages[m].channel), h)]

\* enqueue_ok says whether q.enqueue succeeds; when it fails and
\* INLINE_APPROVE_SEND is on, handler h runs the job itself
Approve(m, enqueue_ok, h) ==
    /\ calls < MaxCalls
    /\ m \in MsgIds
    /\ IF AlreadySent(m)
       THEN /\ Served
            /\ approvals' = Append(approvals, Approval(m, "already_sent"))
       ELSE /\ timeline' = Append(timeline,
                  Note(messages[m].contact_id, "Draft approved by user"))
            /\ calls' = calls + 1
            /\ IF enqueue_ok
               THEN /\ queue' = Append(queue, Job(m, messages[m].channel))
                    /\ approvals' = Append(approvals, Approval(m, "queued"))
                    /\ UNCHANGED ex
               ELSE IF ~settings.INLINE_APPROVE_SEND
               THEN /\ approvals' = Append(approvals, Approval(m, "error"))
                    /\ UNCHANGED <<queue, ex>>
               ELSE /\ ex[h].pc = "idle"
                    /\ InlineSend(m, h)
                    /\ approvals' = Append(approvals, Approval(m, "inline"))
                    /\ UNCHANGED queue
            /\ UNCHANGED <<settings, org, contacts, messages, scheduled,
                           outbox, job_log, msgids, now>>
    /\ UNCHANGED dvars
    /\ UNCHANGED tvars

----------------------------------------------------------------------------
(* The scheduler and the clock *)

\* rq scheduler: a job whose instant has come is put on the queue
RunDue(j) ==
    /\ j \in scheduled
    /\ j.when <= now
    /\ scheduled' = scheduled \ {j}
    /\ queue' = Append(queue, j.job)
    /\ UNCHANGED <<settings, org, contacts, messages, timeline, ex, outbox,
                   job_log, msgids, now, calls>>
    /\ UNCHANGED <<dvars, approvals>>
    /\ UNCHANGED tvars

Tick ==
    /\ now < StartInstant + MaxTicks * TickSeconds
    /\ now' = now + TickSeconds
    /\ UNCHANGED <<settings, org, contacts, messages, timeline, queue,
                   scheduled, ex, outbox, job_log, msgids, calls>>
    /\ UNCHANGED <<dvars, approvals>>
    /\ UNCHANGED tvars

----------------------------------------------------------------------------

Init ==
    /\ ctx = NoCtx
    /\ env = [AUTOSEND_FOLLOWUPS_ALWAYS |-> "", AUTOSEND_INITIAL_ALWAYS |-> ""]
    /\ verdict = NoVerdict
    /\ prior = NoVerdict
    /\ dpc = "idle"
    /\ settings \in [DEMO_SEND : BOOLEAN, INLINE_APPROVE_SEND : BOOLEAN]
    /\ org \in OrgRows
    /\ contacts \in [ContactIds ->
            [dnc : {FALSE}, last_sent_at : {{}}, sends_today : {0},
             email : {{}, {"client@example.com"}}, phone : {{}}]]
    /\ messages = <<>>
    /\ timeline = <<>>
    /\ queue = <<>>
    /\ scheduled = {}
    /\ ex = [e \in Executors |-> Idle]
    /\ outbox = <<>>
    /\ job_log = <<>>
    /\ msgids = 0
    /\ now = StartInstant
    /\ calls = 0
    /\ dispatch = <<>>
    /\ inbox = {}
    /\ approvals = <<>>

Next ==
    \/ \E c \in ContactIds : DraftInitialDocs(c)
    \/ \E c \in ContactIds : ClientUpload(c)
    \/ \E i \in 1..Len(dispatch), at_ok \in BOOLEAN, now_ok \in BOOLEAN :
          Request(i, at_ok, now_ok)
    \/ \E m \in MsgIds, enqueue_ok \in BOOLEAN, h \in Handlers :
          Approve(m, enqueue_ok, h)
    \/ \E w \in Workers : Take(w)
    \/ \E e \in Executors, status \in {"202", "400", "raise"} : Send(e, status)
    \/ \E e \in Executors, committed \in BOOLEAN : Finalize(e, committed)
    \/ \E j \in scheduled : RunDue(j)
    \/ Tick

Spec == Init /\ [][Next]_vars

----------------------------------------------------------------------------
(* The dispatch call sites on their own: every trigger, the queue and the  *)
(* scheduler, no worker                                                    *)

\* what the store holds about a contact at start: nothing ("new"), one
\* message sent an hour ago ("sent"), or a do-not-contact mark ("dnc")
Histories == {"new", "sent", "dnc"}

ContactAfter(h) ==
    [dnc |-> (h = "dnc"),
     last_sent_at |-> IF h = "sent" THEN {StartInstant - SecondsPerHour} ELSE {},
     sends_today |-> IF h = "sent" THEN 1 ELSE 0,
     email |-> {"client@example.com"}, phone |-> {}]

\* the OUTBOUND rows of the contacts with history "sent", in id order
MessagesAfter(hist) ==
    LET ids == SelectSeq([c \in ContactIds |-> c], LAMBDA c : hist[c] = "sent")
    IN  [i \in 1..Len(ids) |->
            [contact_id |-> ids[i], channel |-> "EMAIL", direction |-> "OUTBOUND",
             body |-> "generated",
             meta |-> [intent |-> "initial_docs_request",
                       subject |-> {<<"Document Request">>},
                       reply_to_message_id |-> {},
                       provider_message_id |-> {i},
                       confidence |-> {92}]]]

\* the dispatch sites at rest, the org_settings row drawn from rows
SitesAtRest(rows) ==
    /\ ctx = NoCtx
    /\ env \in {[AUTOSEND_FOLLOWUPS_ALWAYS |-> v, AUTOSEND_INITIAL_ALWAYS |-> ""] :
                   v \in EnvValues}
    /\ verdict = NoVerdict
    /\ prior = NoVerdict
    /\ dpc = "idle"
    /\ settings = [DEMO_SEND |-> FALSE, INLINE_APPROVE_SEND |-> TRUE]
    /\ org \in rows
    /\ \E hist \in [ContactIds -> Histories] :
          /\ contacts = [c \in ContactIds |-> ContactAfter(hist[c])]
          /\ messages = MessagesAfter(hist)
          /\ msgids = Len(MessagesAfter(hist))
    /\ timeline = <<>>
    /\ queue = <<>>
    /\ scheduled = {}
    /\ ex = [e \in Executors |-> Idle]
    /\ outbox = <<>>
    /\ job_log = <<>>
    /\ now = StartInstant
    /\ calls = 0
    /\ dispatch = <<>>
    /\ inbox = {}
    /\ approvals = <<>>

InitDispatch == SitesAtRest(OrgRows)

NextDispatch ==
    \/ \E c \in ContactIds : ClientUpload(c)
    \/ \E c \in ContactIds, still_pending \in BOOLEAN :
          AllDocsReceived(c, still_pending)
    \/ \E c \in ContactIds : DraftInitial(c)
    \/ \E c \in ContactIds, conf \in DraftConfidences : Kickoff(c, conf)
    \/ \E c \in ContactIds, queued \in BOOLEAN : InboundEmail(c, queued)
    \/ \E m \in inbox, cat \in Categories, conf \in DraftConfidences :
          ReactToInbound(m, cat, conf)
    \/ \E i \in 1..Len(dispatch), at_ok \in BOOLEAN, now_ok \in BOOLEAN :
          Request(i, at_ok, now_ok)
    \/ \E j \in scheduled : RunDue(j)
    \/ Tick

SpecDispatch == InitDispatch /\ [][NextDispatch]_vars

----------------------------------------------------------------------------
(* The dispatch call sites under a malformed policy *)

\* org_settings rows whose business_hours_tz names no timezone
MalformedRows ==
    {[r EXCEPT !.business_hours_tz = {"Mars/Phobos"}] : r \in OrgRows}

InitPolicy == SitesAtRest(MalformedRows)

NextPolicy ==
    \/ \E c \in ContactIds : ClientUpload(c)
    \/ \E c \in ContactIds, still_pending \in BOOLEAN :
          AllDocsReceived(c, still_pending)
    \/ \E c \in ContactIds : DraftInitial(c)
    \/ \E c \in ContactIds, conf \in DraftConfidences : Kickoff(c, conf)
    \/ \E c \in ContactIds, queued \in BOOLEAN : InboundEmail(c, queued)
    \/ \E m \in inbox, cat \in Categories, conf \in DraftConfidences :
          ReactToInbound(m, cat, conf)
    \/ \E i \in 1..Len(dispatch), at_ok \in BOOLEAN, now_ok \in BOOLEAN :
          Request(i, at_ok, now_ok)

SpecPolicy == InitPolicy /\ [][NextPolicy]_vars

----------------------------------------------------------------------------
(* routes_leads.py:25-70 (create_lead) and the operations that write a     *)
(* contact row or act for a marked contact: inbound classification, the    *)
(* lead form, dispatch, approve and the delivery job                       *)

\* faulty variant: the upsert writes the whole row anew, dnc with its
\* column default
LeadUpdate_ResetsDnc(row, phone) ==
    [row EXCEPT !.phone = IF phone = {} THEN @ ELSE phone, !.dnc = FALSE]

\* routes_leads.py:47-56: UPDATE contacts SET email = COALESCE(%s, email),
\* phone = COALESCE(%s, phone), ...; the lead carries the email the row
\* was found by
LeadUpdate(row, phone) ==
    [row EXCEPT !.phone = IF phone = {} THEN @ ELSE phone]

LeadPhones == {{}, {"+15550100"}}

\* routes_leads.py:25-70: the lead form posted with the email of contact c;
\* ignored: the honeypot field is filled.  (A lead that matches no row
\* inserts a new contact, dnc taking its column default.)
CreateLead(c, phone, ignored) ==
    /\ calls < MaxCalls
    /\ contacts[c].email # {}
    /\ IF ignored
       THEN Served
       ELSE /\ contacts' = [contacts EXCEPT ![c] = LeadUpdate(@, phone)]
            /\ timeline' = timeline \o
                  <<Note(c, "Lead info updated via web form"),
                    [contact_id |-> c, type |-> "META", detail |-> "lead meta",
                     message_id |-> 0, reasons |-> <<>>]>>
            /\ calls' = calls + 1
            /\ UNCHANGED <<settings, org, messages, queue, scheduled, ex,
                           outbox, job_log, msgids, now>>
            /\ UNCHANGED tvars
    /\ UNCHANGED <<dvars, approvals>>

\* routes_messages.py:322-342 (update_draft_post): the body of a row that
\* is still DRAFT is replaced; any other row answers 404
UpdateDraft(m) ==
    /\ calls < MaxCalls
    /\ m \in MsgIds
    /\ IF messages[m].direction # "DRAFT"
       THEN Served
       ELSE /\ messages' = [messages EXCEPT ![m].body = "edited"]
            /\ calls' = calls + 1
            /\ UNCHANGED <<settings, org, contacts, timeline, queue, scheduled,
                           ex, outbox, job_log, msgids, now>>
            /\ UNCHANGED tvars
    /\ UNCHANGED <<dvars, approvals>>

InitLatch ==
    /\ InitDispatch
    /\ env.AUTOSEND_FOLLOWUPS_ALWAYS = ""
    /\ org = OrgDefaults

NextLatch ==
    \/ \E c \in ContactIds : ClientUpload(c)
    \/ \E c \in ContactIds, queued \in BOOLEAN : InboundEmail(c, queued)
    \/ \E m \in inbox, cat \in Categories, conf \in DraftConfidences :
          ReactToInbound(m, cat, conf)
    \/ \E i \in 1..Len(dispatch), at_ok \in BOOLEAN, now_ok \in BOOLEAN :
          Request(i, at_ok, now_ok)
    \/ \E c \in ContactIds, phone \in LeadPhones, ignored \in BOOLEAN :
          CreateLead(c, phone, ignored)
    \/ \E m \in MsgIds : UpdateDraft(m)
    \/ \E m \in MsgIds, enqueue_ok \in BOOLEAN, h \in Handlers :
          Approve(m, enqueue_ok, h)
    \/ \E w \in Workers : Take(w)
    \/ \E e \in Executors, status \in {"202", "400", "raise"} : Send(e, status)
    \/ \E e \in Executors, committed \in BOOLEAN : Finalize(e, committed)

SpecLatch == InitLatch /\ [][NextLatch]_vars

----------------------------------------------------------------------------
(* The delivery job for a draft at the end of a thread *)

\* the subjects of the messages received before the draft: no subject key
\* (SMS or dev inbound, routes_webhooks.py:219, 266), an empty subject
\* (routes_webhooks.py:288, 320: an email without a subject line), and
\* subjects as mail clients write them
InboundSubjects ==
    {{}, {<<>>}, {<<"Question">>}, {<<"RE:", "Question">>},
     {<<"re:", "Question">>}}

Inbound(subject) ==
    [contact_id |-> 1, channel |-> "EMAIL", direction |-> "INBOUND",
     body |-> "received",
     meta |-> [intent |-> "inbound", subject |-> subject,
               reply_to_message_id |-> {}, provider_message_id |-> {},
               confidence |-> {}]]

\* the drafts waiting to be sent: a follow-up without a subject
\* (followups.py:299-309), a follow-up with its "Re: " subject
\* (jobs.py:640-657) and an initial docs request (routes_messages.py:125-142)
ThreadDrafts ==
    {Draft(1, [intent |-> "doc_followup", subject |-> {},
               reply_to_message_id |-> {}, provider_message_id |-> {},
               confidence |-> {98}]),
     Draft(1, [intent |-> "doc_followup",
               subject |-> {<<"Re:", "Documents for your case">>},
               reply_to_message_id |-> {}, provider_message_id |-> {},
               confidence |-> {}]),
     Draft(1, [intent |-> "initial_docs_request",
               subject |-> {<<"Document Request">>},
               reply_to_message_id |-> {}, provider_message_id |-> {},
               confidence |-> {92}])}

InitSubject ==
    /\ ctx = NoCtx
    /\ env = [AUTOSEND_FOLLOWUPS_ALWAYS |-> "", AUTOSEND_INITIAL_ALWAYS |-> ""]
    /\ verdict = NoVerdict
    /\ prior = NoVerdict
    /\ dpc = "idle"
    /\ settings = [DEMO_SEND |-> FALSE, INLINE_APPROVE_SEND |-> TRUE]
    /\ org = OrgDefaults
    /\ contacts = [c \in ContactIds |-> ContactAfter("new")]
    /\ \E before \in [1..(MaxMessages - 1) -> InboundSubjects], d \in ThreadDrafts :
          messages = [i \in 1..(MaxMessages - 1) |-> Inbound(before[i])] \o <<d>>
    /\ timeline = <<>>
    /\ queue = <<Job(MaxMessages, "EMAIL")>>
    /\ scheduled = {}
    /\ ex = [e \in Executors |-> Idle]
    /\ outbox = <<>>
    /\ job_log = <<>>
    /\ msgids = 0
    /\ now = StartInstant
    /\ calls = 0
    /\ dispatch = <<>>
    /\ inbox = {}
    /\ approvals = <<>>

NextSubject ==
    \/ \E w \in Workers : Take(w)
    \/ \E e \in Executors, status \in {"202", "400", "raise"} : Send(e, status)
    \/ \E e \in Executors, committed \in BOOLEAN : Finalize(e, committed)

SpecSubject == InitSubject /\ [][NextSubject]_vars

----------------------------------------------------------------------------
(* The delivery jobs of several drafts of one contact, in any order *)

\* follow-up drafts as draft_followup_for_missing stores them
\* (followups.py:299-309: no reply_to_message_id), or with a parent set
\* when the draft was written (jobs.py:690-691, 705-709)
FollowupDrafts ==
    {Draft(1, [intent |-> "doc_followup", subject |-> {},
               reply_to_message_id |-> r, provider_message_id |-> {},
               confidence |-> {98}]) : r \in {{}, {77}}}

\* the orders in which the jobs of the drafts may have been put on the queue
JobOrders ==
    {q \in [1..MaxMessages -> 1..MaxMessages] :
        \A i, j \in 1..MaxMessages : i # j => q[i] # q[j]}

InitThread ==
    /\ ctx = NoCtx
    /\ env = [AUTOSEND_FOLLOWUPS_ALWAYS |-> "", AUTOSEND_INITIAL_ALWAYS |-> ""]
    /\ verdict = NoVerdict
    /\ prior = NoVerdict
    /\ dpc = "idle"
    /\ settings = [DEMO_SEND |-> FALSE, INLINE_APPROVE_SEND |-> TRUE]
    /\ org = OrgDefaults
    /\ contacts = [c \in ContactIds |-> ContactAfter("new")]
    /\ messages \in [1..MaxMessages -> FollowupDrafts]
    /\ \E q \in JobOrders : queue = [i \in 1..MaxMessages |-> Job(q[i], "EMAIL")]
    /\ timeline = <<>>
    /\ scheduled = {}
    /\ ex = [e \in Executors |-> Idle]
    /\ outbox = <<>>
    /\ job_log = <<>>
    /\ msgids = 100
    /\ now = StartInstant
    /\ calls = 0
    /\ dispatch = <<>>
    /\ inbox = {}
    /\ approvals = <<>>

NextThread ==
    \/ \E w \in Workers : Take(w)
    \/ \E e \in Executors, status \in {"202", "raise"} : Send(e, status)
    \/ \E e \in Executors, committed \in BOOLEAN : Finalize(e, committed)

SpecThread == InitThread /\ [][NextThread]_vars

----------------------------------------------------------------------------
(* Automatic dispatches racing with the delivery job: no force flag, no    *)
(* approval, a contact never sent to                                       *)

\* org_settings rows with the default cooldown of 22 hours: a daily limit
\* of one send and no grace period, or the defaults
QuotaRows ==
    {[OrgDefaults EXCEPT !.max_daily_sends = {1}, !.grace_minutes = {0}],
     OrgDefaults}

InitRace ==
    /\ SitesAtRest(QuotaRows)
    /\ env.AUTOSEND_FOLLOWUPS_ALWAYS = ""
    /\ \A c \in ContactIds : contacts[c] = ContactAfter("new")

NextRace ==
    \/ \E c \in ContactIds : ClientUpload(c)
    \/ \E i \in 1..Len(dispatch), at_ok \in BOOLEAN, now_ok \in BOOLEAN :
          Request(i, at_ok, now_ok)
    \/ \E w \in Workers : Take(w)
    \/ \E e \in Executors, status \in {"202", "400", "raise"} : Send(e, status)
    \/ \E e \in Executors, committed \in BOOLEAN : Finalize(e, committed)
    \/ \E j \in scheduled : RunDue(j)
    \/ Tick

SpecRace == InitRace /\ [][NextRace]_vars

----------------------------------------------------------------------------
(* Dispatched drafts picked up by the worker: the upload, inbound and      *)
(* kickoff sites, the queue, the scheduler and the delivery job            *)

InitPickup ==
    /\ SitesAtRest(OrgRows)
    /\ env.AUTOSEND_FOLLOWUPS_ALWAYS = ""
    /\ \A c \in ContactIds : contacts[c] = ContactAfter("new")

NextPickup ==
    \/ \E c \in ContactIds : ClientUpload(c)
    \/ \E c \in ContactIds, conf \in DraftConfidences : Kickoff(c, conf)
    \/ \E c \in ContactIds, queued \in BOOLEAN : InboundEmail(c, queued)
    \/ \E m \in inbox, cat \in Categories, conf \in DraftConfidences :
          ReactToInbound(m, cat, conf)
    \/ \E i \in 1..Len(dispatch), at_ok \in BOOLEAN, now_ok \in BOOLEAN :
          Request(i, at_ok, now_ok)
    \/ \E j \in scheduled : RunDue(j)
    \/ Tick
    \/ \E w \in Workers : Take(w)
    \/ \E e \in Executors, status \in {"202", "raise"} : Send(e, status)
    \/ \E e \in Executors, committed \in BOOLEAN : Finalize(e, committed)

SpecPickup == InitPickup /\ [][NextPickup]_vars

----------------------------------------------------------------------------
(* Delivery under fairness: the worker loop (worker_simple.py:46-51) keeps *)
(* taking jobs and running them to their end, the scheduler keeps moving   *)
(* due jobs to the queue and the clock keeps running; the provider answers *)
(* every request and the finalizing transaction commits.                   *)

\* the clock moves on while a scheduled job waits for its instant
Elapse ==
    /\ \E j \in scheduled : j.when > now
    /\ now' = now + TickSeconds
    /\ UNCHANGED <<settings, org, contacts, messages, timeline, queue,
                   scheduled, ex, outbox, job_log, msgids, calls>>
    /\ UNCHANGED <<dvars, approvals>>
    /\ UNCHANGED tvars

\* a provider call that returns, with whatever status
SendReturns(e) == \E status \in {"202", "400"} : Send(e, status)

InitLive == InitPickup

NextLive ==
    \/ \E c \in ContactIds : ClientUpload(c)
    \/ \E c \in ContactIds, queued \in BOOLEAN : InboundEmail(c, queued)
    \/ \E m \in inbox, cat \in Categories, conf \in DraftConfidences :
          ReactToInbound(m, cat, conf)
    \/ \E i \in 1..Len(dispatch), at_ok \in BOOLEAN, now_ok \in BOOLEAN :
          Request(i, at_ok, now_ok)
    \/ \E j \in scheduled : RunDue(j)
    \/ Elapse
    \/ \E w \in Workers : Take(w)
    \/ \E e \in Executors : SendReturns(e)
    \/ \E e \in Executors : Finalize(e, TRUE)

FairLive ==
    /\ WF_vars(\E j \in scheduled : RunDue(j))
    /\ WF_vars(Elapse)
    /\ WF_vars(\E w \in Workers : Take(w))
    /\ \A e \in Executors : WF_vars(SendReturns(e))
    /\ \A e \in Executors : WF_vars(Finalize(e, TRUE))

SpecLive == InitLive /\ [][NextLive]_vars /\ FairLive

----------------------------------------------------------------------------
(* The lifecycle as the claims name it *)

\* the calls of the Sender made for message m
SenderCalls(m) == {i \in 1..Len(outbox) : outbox[i].message_id = m}
\* those of them the provider accepted
Accepted(m) == {i \in SenderCalls(m) : outbox[i].status = "202"}
\* the ended runs of the delivery job for message m
Runs(m) == {i \in 1..Len(job_log) : job_log[i].message_id = m}
Running(m) == {e \in Executors : ex[e].pc # "idle" /\ ex[e].message_id = m}
RECURSIVE SumInc(_)
SumInc(S) == IF S = {} THEN 0
             ELSE LET i == CHOOSE j \in S : TRUE
                  IN  job_log[i].inc + SumInc(S \ {i})

\* C1: two runs of the Delivery Finalizer on the same draft id, the second
\* begun after the first has ended, give exactly one DRAFT->OUTBOUND
\* transition, one increment of sendsToday and one Sender invocation; the
\* second run is a no-op.
C1_SecondRunIsNoOp ==
    \A m \in MsgIds : \A i, j \in Runs(m) :
        ( /\ i < j /\ Runs(m) = {i, j} /\ Running(m) = {}
          /\ job_log[j].seen >= i
          /\ job_log[i].outcome = "ok" /\ job_log[j].outcome = "ok" )
        => /\ job_log[i].flipped /\ ~job_log[j].flipped
           /\ job_log[i].inc + job_log[j].inc = 1
           /\ (~settings.DEMO_SEND => Cardinality(SenderCalls(m)) = 1)

\* C2: under every interleaving of approve calls, dispatches and workers
\* a draft is sent at most once (the provider accepts at most one send for
\* it), and at most one run changes the contact's counters for it.
C2_NoDoubleSend ==
    \A m \in MsgIds :
        /\ Cardinality(Accepted(m)) <= 1
        /\ SumInc(Runs(m)) <= 1

----------------------------------------------------------------------------
(* The inputs as the claims name them *)

Done == dpc = "done"
IsDnc == ctx.contact.dnc = {TRUE}
NotInitial == ~ctx.is_initial
FlagFollowup ==
    env.AUTOSEND_FOLLOWUPS_ALWAYS = "TRUE" \/ ctx.org.autosend_all_followups = {TRUE}
FlagInitial == env.AUTOSEND_INITIAL_ALWAYS = "TRUE"
ApprovalRequired == ctx.org.require_approval_initial # {FALSE}
MaxDailyIn == IF ctx.org.max_daily_sends = {} THEN 2
              ELSE CHOOSE n \in 0..MaxSendsToday + 1 : ctx.org.max_daily_sends = {n}
SendsTodayIn == CHOOSE n \in 0..MaxSendsToday + 1 : ctx.contact.sends_today = {n}
CoolSecondsIn == IF ctx.org.cooldown_hours = {} THEN 22 * 3600
                 ELSE (CHOOSE n \in 0..22 : ctx.org.cooldown_hours = {n}) * 3600
ThresholdIn == IF ctx.org.autosend_confidence_threshold = {} THEN 85
               ELSE CHOOSE n \in 0..100 : ctx.org.autosend_confidence_threshold = {n}
LastSentIs(t) == ctx.contact.last_sent_at = {t}
Reason(r) == verdict.reasons = <<r>>

\* rules 1 to 3 of the evaluation order do not match
PastRule1 == ~IsDnc
PastRule2 == PastRule1 /\ ~(NotInitial /\ FlagFollowup)
PastRule3 == PastRule2 /\ ~(ctx.is_initial /\ (FlagInitial \/ ~ApprovalRequired))
LimitHit == MaxDailyIn > 0 /\ SendsTodayIn >= MaxDailyIn
PastRule4 == PastRule3 /\ ~LimitHit

\* C3: a contact with doNotContact=true is always denied with exactly
\* ["contact_on_dnc"] and no send time, whatever the other inputs and flags.
C3_DncAlwaysDenies ==
    (Done /\ IsDnc) =>
        /\ ~verdict.raised
        /\ ~verdict.allowed
        /\ Reason("contact_on_dnc")
        /\ verdict.when = {}

C3_Witness ==
    Done /\ IsDnc /\ NotInitial /\ FlagFollowup /\ Reason("contact_on_dnc")

C5_InitialNeedsApproval ==
    (Done /\ ctx.is_initial /\ ApprovalRequired /\ ~FlagInitial) =>
        ~verdict.allowed

\* C6: the first matching rule in the order DNC, force-follow-up,
\* force-initial, daily limit, cooldown, compliance, confidence, business
\* hours, grace decides; every verdict has exactly one reason, that of the
\* earliest matching rule; and nothing after the deciding rule runs (an
\* unknown timezone raises only when rules 1 to 7 do not match).
C6_TzIn == IF ctx.org.business_hours_tz = {} THEN "America/Los_Angeles"
           ELSE CHOOSE z \in {"UTC", "Mars/Phobos"} : ctx.org.business_hours_tz = {z}
C6_LocalHour ==
    LET off == IF C6_TzIn = "UTC" THEN 0
               ELSE IF ctx.now_utc < DstStartUtc THEN -8 ELSE -7
    IN  ((ctx.now_utc \div 3600) + off) % 24
C6_StartIn == IF ctx.org.business_hours_start = {} THEN 8
              ELSE CHOOSE n \in 0..23 : ctx.org.business_hours_start = {n}
C6_EndIn == IF ctx.org.business_hours_end = {} THEN 18
            ELSE CHOOSE n \in 0..23 : ctx.org.business_hours_end = {n}
C6_Matches(i) ==
    CASE i = 1 -> IsDnc
      [] i = 2 -> NotInitial /\ FlagFollowup
      [] i = 3 -> ctx.is_initial /\ (FlagInitial \/ ~ApprovalRequired)
      [] i = 4 -> LimitHit
      [] i = 5 -> /\ ctx.contact.last_sent_at # {}
                  /\ CoolSecondsIn > 0
                  /\ \E t \in (ctx.now_utc - CoolSecondsIn + 1)..ctx.now_utc + 1 :
                        LastSentIs(t)
      [] i = 6 -> ctx.drafted.compliance_ok = {FALSE}
      [] i = 7 -> \E cf \in 0..100 :
                    /\ ctx.drafted.confidence = {cf}
                    /\ cf < ThresholdIn
      [] i = 8 -> C6_LocalHour < C6_StartIn \/ C6_LocalHour >= C6_EndIn
      [] i = 9 -> TRUE
C6_Reasons(i) ==
    CASE i = 1 -> {"contact_on_dnc"}
      [] i = 2 -> {"force_followup_autosend"}
      [] i = 3 -> {"initial_no_approval"}
      [] i = 4 -> {"daily_limit_reached"}
      [] i = 5 -> {"cooldown_active"}
      [] i = 6 -> {"compliance_failed"}
      [] i = 7 -> {"confidence_below_threshold"}
      [] i = 8 -> {"scheduled_for_business_hours"}
      [] i = 9 -> {"grace_period", "immediate_autosend"}
C6_First == CHOOSE i \in 1..9 : C6_Matches(i) /\ \A j \in 1..(i - 1) : ~C6_Matches(j)

C6_FirstMatchDecides ==
    Done =>
        IF verdict.raised
        THEN C6_TzIn = "Mars/Phobos" /\ \A j \in 1..7 : ~C6_Matches(j)
        ELSE /\ Len(verdict.reasons) = 1
             /\ verdict.reasons[1] \in C6_Reasons(C6_First)

C6_Witness ==
    /\ Done /\ ~IsDnc /\ NotInitial /\ FlagFollowup /\ LimitHit
    /\ C6_Matches(5) /\ C6_Matches(6)
    /\ Reason("force_followup_autosend")

\* C7: a non-initial draft of a non-DNC contact with the force-follow-up
\* flag set is allowed at once with ["force_followup_autosend"], even when
\* the daily limit, cooldown, compliance, confidence or hours would stop it.
C7_ForceFollowupAllows ==
    (Done /\ ~IsDnc /\ NotInitial /\ FlagFollowup) =>
        /\ ~verdict.raised
        /\ verdict.allowed
        /\ Reason("force_followup_autosend")
        /\ verdict.when = {}

C7_Witness ==
    /\ Done /\ ~IsDnc /\ NotInitial
    /\ ctx.org.autosend_all_followups = {TRUE}
    /\ env.AUTOSEND_FOLLOWUPS_ALWAYS = ""
    /\ LimitHit
    /\ ctx.drafted.compliance_ok = {FALSE}
    /\ verdict.allowed

\* C8: an initial draft of a non-DNC contact is allowed at once with
\* ["initial_no_approval"] if the force-initial flag is set or
\* requireApprovalForInitial is false.
C8_ForceInitialAllows ==
    (Done /\ ~IsDnc /\ ctx.is_initial /\ (FlagInitial \/ ~ApprovalRequired)) =>
        /\ ~verdict.raised
        /\ verdict.allowed
        /\ Reason("initial_no_approval")
        /\ verdict.when = {}

C8_Witness ==
    /\ Done /\ ~IsDnc /\ ctx.is_initial
    /\ FlagInitial /\ ctx.org.require_approval_initial = {TRUE}
    /\ LimitHit
    /\ verdict.allowed

\* C9: when rules 1 to 3 do not match, the verdict is the denial
\* "daily_limit_reached" exactly when maxDailySends > 0 and
\* sendsToday >= maxDailySends.
C9_DailyLimitExact ==
    (Done /\ PastRule3) =>
        /\ Reason("daily_limit_reached") <=> LimitHit
        /\ Reason("daily_limit_reached") => (~verdict.allowed /\ verdict.when = {})

C9_Witness ==
    /\ Done /\ PastRule3
    /\ MaxDailyIn > 0 /\ SendsTodayIn = MaxDailyIn
    /\ Reason("daily_limit_reached")

\* C10: with cooldownHours > 0 and rules 1 to 4 not matching, a lastSentAt
\* one second inside the window is denied with "cooldown_active" and one a
\* second outside it is not; an absent lastSentAt or cooldownHours = 0 never
\* gives "cooldown_active".
C10_CooldownBoundary ==
    Done =>
        /\ (PastRule4 /\ CoolSecondsIn > 0
              /\ LastSentIs(ctx.now_utc - CoolSecondsIn + 1))
            => (~verdict.allowed /\ Reason("cooldown_active"))
        /\ (PastRule4 /\ CoolSecondsIn > 0
              /\ LastSentIs(ctx.now_utc - CoolSecondsIn - 1))
            => ~Reason("cooldown_active")
        /\ (ctx.contact.last_sent_at = {} \/ CoolSecondsIn = 0)
            => ~Reason("cooldown_active")

C10_Witness ==
    /\ Done /\ PastRule4 /\ ctx.org.cooldown_hours = {1}
    /\ LastSentIs(ctx.now_utc - 3599)
    /\ Reason("cooldown_active")

\* rules 1 to 7 of the evaluation order do not match
PastRule5 == PastRule4 /\ ~C6_Matches(5)
PastRule7 == PastRule5 /\ ~C6_Matches(6) /\ ~C6_Matches(7)
ZoneKnown == C6_TzIn # "Mars/Phobos"

\* C11: a draft is denied with "compliance_failed" only when complianceOk
\* is explicitly false; an absent complianceOk passes as compliant, and an
\* absent confidence is never denied with "confidence_below_threshold".
C11_AbsentQualityPasses ==
    Done =>
        /\ Reason("compliance_failed") =>
              (~verdict.allowed /\ ctx.drafted.compliance_ok = {FALSE})
        /\ (PastRule5 /\ ctx.drafted.compliance_ok = {}) =>
              (verdict.reasons # <<>> => verdict.reasons[1] \in
                   {"confidence_below_threshold", "scheduled_for_business_hours",
                    "grace_period", "immediate_autosend"})
        /\ ctx.drafted.confidence = {} => ~Reason("confidence_below_threshold")

C11_Witness ==
    /\ Done /\ PastRule5
    /\ ctx.drafted.compliance_ok = {} /\ ctx.drafted.confidence = {}
    /\ ctx.org.autosend_confidence_threshold = {90}
    /\ verdict.allowed

\* C12: where the verdict was the denial "confidence_below_threshold",
\* raising only the confidence to the threshold or above gives allowed=true
\* (the policy's timezone being a known zone); and a confidence exactly
\* equal to the threshold is not denied by the confidence rule.
C12_ConfidenceMonotone ==
    /\ (dpc = "raised" /\ ZoneKnown) =>
          (~verdict.raised /\ verdict.allowed)
    /\ (dpc \in {"done", "raised"} /\ ctx.drafted.confidence = {ThresholdIn}) =>
          ~Reason("confidence_below_threshold")

C12_Witness ==
    /\ dpc = "raised"
    /\ prior.reasons = <<"confidence_below_threshold">>
    /\ ctx.drafted.confidence = {ThresholdIn}
    /\ ZoneKnown
    /\ verdict.allowed

\* C13: when rules 1 to 7 do not match and the local hour is outside
\* [start, end), the verdict is allowed=true with
\* ["scheduled_for_business_hours"] and when = the next opening: start:00 of
\* the same local day if the local hour is before start, else start:00 of the
\* next local day, as a UTC instant.
C13_OffsetAt(utc) ==
    IF C6_TzIn = "UTC" THEN 0
    ELSE IF utc < DstStartUtc THEN -8 * 3600 ELSE -7 * 3600
C13_OpeningWall ==
    LET local    == ctx.now_utc + C13_OffsetAt(ctx.now_utc)
        midnight == local - (local % 86400)
    IN  (IF C6_LocalHour < C6_StartIn THEN midnight ELSE midnight + 86400)
            + C6_StartIn * 3600
C13_Opening ==
    CHOOSE u \in {C13_OpeningWall + k * 3600 : k \in 0..8} :
        u + C13_OffsetAt(u) = C13_OpeningWall
C13_NextOpening ==
    (Done /\ PastRule7 /\ ZoneKnown /\ C6_Matches(8)) =>
        /\ ~verdict.raised
        /\ verdict.allowed
        /\ Reason("scheduled_for_business_hours")
        /\ verdict.when = {C13_Opening}

\* C14: inside business hours with no earlier rule matching, the verdict is
\* allowed=true with when = nowUtc + graceMinutes minutes and ["grace_period"]
\* if graceMinutes > 0, and with no send time and ["immediate_autosend"] if
\* graceMinutes = 0.
C14_Grace ==
    (Done /\ PastRule7 /\ ZoneKnown /\ ~C6_Matches(8)) =>
        \A g \in 0..60 :
            ctx.org.grace_minutes = {g} =>
                /\ ~verdict.raised
                /\ verdict.allowed
                /\ IF g > 0
                   THEN Reason("grace_period") /\ verdict.when = {ctx.now_utc + g * 60}
                   ELSE Reason("immediate_autosend") /\ verdict.when = {}

C14_Witness ==
    /\ Done /\ PastRule7 /\ ZoneKnown /\ ~C6_Matches(8)
    /\ ctx.org.grace_minutes = {5}
    /\ Reason("grace_period")
    /\ verdict.when = {ctx.now_utc + 300}

C15_Truthy(raw) == raw \in {"TRUE", " on ", "Yes"}
C15_SameFlags(e1, e2) ==
    \A n \in {"AUTOSEND_FOLLOWUPS_ALWAYS", "AUTOSEND_INITIAL_ALWAYS"} :
        C15_Truthy(e1[n]) <=> C15_Truthy(e2[n])
C16_DefaultsAgree ==
    dpc = "completed" => verdict = prior

----------------------------------------------------------------------------
(* The dispatches as the claims name them *)

DecisionRows(m) ==
    {k \in 1..Len(timeline) : /\ timeline[k].type = "AUTO_SEND_DECISION"
                              /\ timeline[k].message_id = m}
OnQueue(job) == \E k \in 1..Len(queue) : queue[k] = job
OnSchedule(job) == \E j \in scheduled : j.job = job
Dispatches == 1..Len(dispatch)

\* C17: every dispatch that reaches a verdict, at each of the five call
\* sites, has exactly one AUTO_SEND_DECISION row, carrying the draft's
\* message id and the verdict's reasons, whether the verdict denies or
\* allows; and the row is committed before any scheduling request: no
\* delivery job is queued or scheduled for a draft without its row.
C17_OneDecisionPerDispatch ==
    /\ \A i \in Dispatches :
          /\ Cardinality(DecisionRows(dispatch[i].draft_id)) = 1
          /\ \A k \in DecisionRows(dispatch[i].draft_id) :
                /\ timeline[k].reasons = dispatch[i].reasons
                /\ timeline[k].contact_id = dispatch[i].contact_id
          /\ dispatch[i].stage = "decided" =>
                /\ ~OnQueue(Job(dispatch[i].draft_id, "EMAIL"))
                /\ ~OnSchedule(Job(dispatch[i].draft_id, "EMAIL"))
    /\ \A k \in 1..Len(queue) : DecisionRows(queue[k].message_id) # {}
    /\ \A j \in scheduled : DecisionRows(j.job.message_id) # {}

C17_Witness ==
    \E i, j \in Dispatches :
        /\ dispatch[i].site = "inbound" /\ ~dispatch[i].allowed
        /\ dispatch[i].reasons = <<"confidence_below_threshold">>
        /\ dispatch[j].site = "kickoff" /\ dispatch[j].allowed
        /\ OnQueue(Job(dispatch[j].draft_id, "EMAIL"))
        /\ Cardinality(DecisionRows(dispatch[i].draft_id)) = 1
        /\ Cardinality(DecisionRows(dispatch[j].draft_id)) = 1

\* C18: a denied dispatch makes no scheduling request, neither enqueue nor
\* enqueue-at: the step that commits the denial leaves the queue, the
\* schedule and the contact's sendsToday and lastSentAt as they were and
\* the draft in direction DRAFT, and no later step of the dispatch follows.
C18_DenialRequestsNothing ==
    [][ /\ \A i \in 1..Len(dispatch') :
              ~dispatch'[i].allowed =>
                  /\ dispatch'[i].stage = "done"
                  /\ dispatch'[i].at = "none" /\ dispatch'[i].imm = "none"
                  /\ \A k \in 1..Len(queue') :
                        queue'[k].message_id # dispatch'[i].draft_id
                  /\ \A j \in scheduled' :
                        j.job.message_id # dispatch'[i].draft_id
        /\ (Len(dispatch') > Len(dispatch) /\ ~dispatch'[Len(dispatch')].allowed) =>
              /\ queue' = queue
              /\ scheduled' = scheduled
              /\ contacts' = contacts
              /\ messages'[dispatch'[Len(dispatch')].draft_id].direction = "DRAFT"
      ]_vars

C18_Witness ==
    \E i \in Dispatches :
        /\ dispatch[i].site = "upload" /\ ~dispatch[i].allowed
        /\ dispatch[i].reasons = <<"cooldown_active">>
        /\ messages[dispatch[i].draft_id].direction = "DRAFT"
        /\ contacts[dispatch[i].contact_id].sends_today = 1
        /\ queue = <<>> /\ scheduled = {}

\* C19: an allowed dispatch asks for immediate execution if "when" is null
\* or not later than the now it compares with, and for scheduled execution
\* at exactly "when" if "when" lies ahead; while the scheduler accepts the
\* request, a draft whose "when" is still ahead is not on the immediate
\* queue.
C19_WhenAhead(i) ==
    \E t \in dispatch[i].when : \E n \in dispatch[i].req_now : t > n
C19_ScheduleOrEnqueue ==
    \A i \in Dispatches :
        (dispatch[i].allowed /\ dispatch[i].stage = "done") =>
            LET d   == dispatch[i]
                job == Job(d.draft_id, "EMAIL")
            IN  IF C19_WhenAhead(i)
                THEN /\ d.at # "none"
                     /\ d.at_when = d.when
                     /\ d.at = "ok" =>
                           /\ d.imm = "none"
                           /\ \A t \in d.when :
                                 IF t > now
                                 THEN /\ [when |-> t, job |-> job] \in scheduled
                                      /\ ~OnQueue(job)
                                 ELSE \/ [when |-> t, job |-> job] \in scheduled
                                      \/ OnQueue(job)
                ELSE /\ d.at = "none"
                     /\ d.imm # "none"
                     /\ d.imm = "ok" => OnQueue(job)
                     /\ ~OnSchedule(job)

C19_Witness ==
    \E i, j \in Dispatches :
        /\ dispatch[i].allowed /\ dispatch[i].stage = "done"
        /\ dispatch[i].reasons = <<"grace_period">>
        /\ dispatch[i].at = "ok"
        /\ [when |-> now + 300, job |-> Job(dispatch[i].draft_id, "EMAIL")]
              \in scheduled
        /\ dispatch[j].allowed /\ dispatch[j].stage = "done"
        /\ dispatch[j].when = {}
        /\ OnQueue(Job(dispatch[j].draft_id, "EMAIL"))

\* C20: at every dispatch call site, a dispatch whose enqueue-at failed
\* went on to an immediate enqueue of the same delivery job.
C20_FallbackEverywhere ==
    \A i \in Dispatches :
        (dispatch[i].stage = "done" /\ dispatch[i].at = "failed") =>
            dispatch[i].imm # "none"

----------------------------------------------------------------------------
(* C21 *)

\* the dispatches that ended with an allowed verdict and no delivery job
C21_LeftWithoutJob ==
    {i \in Dispatches : /\ dispatch[i].allowed
                         /\ dispatch[i].stage = "done"
                         /\ dispatch[i].at # "ok"
                         /\ dispatch[i].imm # "ok"}

\* C21: when neither enqueue_at nor enqueue put a job for an allowed draft,
\* the draft is still DRAFT and the failure left the handler as an error
\* (nothing is written to the timeline at that point by any site): no
\* dispatch ends allowed, without a job and without a reported failure
C21_FailureSurfaced ==
    \A i \in C21_LeftWithoutJob :
        /\ messages[dispatch[i].draft_id].direction = "DRAFT"
        /\ dispatch[i].failure = "raised"

----------------------------------------------------------------------------
(* C22, C23 *)

\* this step is a call of approve_and_send for message m
C22_Approves(m) ==
    /\ Len(approvals') = Len(approvals) + 1
    /\ approvals'[Len(approvals')].message_id = m

C22_Response == approvals'[Len(approvals')].response

\* C22: a call of approve for a message that is not DRAFT answers
\* already_sent and changes nothing: no timeline row, no job on the queue
\* or the schedule, no executor started, no provider call, no row changed
C22_ApproveOfSentIsNoOp ==
    [][\A m \in MsgIds :
          C22_Approves(m) /\ messages[m].direction # "DRAFT" =>
              /\ C22_Response = "already_sent"
              /\ UNCHANGED <<timeline, queue, scheduled, ex, outbox, job_log,
                             messages, contacts>>]_vars

\* approve was called for a message a worker had already sent
C22_Witness ==
    \E i \in 1..Len(approvals) :
        /\ approvals[i].response = "already_sent"
        /\ messages[approvals[i].message_id].direction = "OUTBOUND"

\* the runs of the job the handlers began, ended or not
C23_InlineRuns ==
    Cardinality({i \in 1..Len(job_log) : job_log[i].inline})
        + Cardinality({h \in Handlers : ex[h].pc # "idle"})

C23_OfDraft(m) ==
    /\ timeline' = Append(timeline,
          Note(messages[m].contact_id, "Draft approved by user"))
    /\ C22_Response \in {"queued", "inline", "error"}
    /\ C22_Response = "queued" =>
          /\ queue' = Append(queue, Job(m, messages[m].channel))
          /\ UNCHANGED <<ex, messages>>
    /\ C22_Response # "queued" /\ settings.INLINE_APPROVE_SEND =>
          /\ C22_Response = "inline"
          /\ UNCHANGED queue
          /\ \E h \in Handlers :
                /\ ex[h].pc = "idle"
                /\ ex'[h].pc = "loaded"
                /\ ex'[h].message_id = m
                /\ \A e \in Executors \ {h} : ex'[e] = ex[e]
    /\ C22_Response # "queued" /\ ~settings.INLINE_APPROVE_SEND =>
          /\ C22_Response = "error"
          /\ messages'[m].direction = "DRAFT"
          /\ UNCHANGED <<queue, scheduled, ex, outbox>>

\* C23: a call of approve for a DRAFT writes the note 'Draft approved by
\* user' and puts the job on the queue; when the enqueue fails and
\* INLINE_APPROVE_SEND is on, the handler runs the job itself, once for
\* each such call; when it fails and INLINE_APPROVE_SEND is off, the call
\* answers with an error and the message is still DRAFT
C23_ApproveOfDraft ==
    /\ [](C23_InlineRuns = Cardinality({i \in 1..Len(approvals) :
                                           approvals[i].response = "inline"}))
    /\ [][\A m \in MsgIds :
             C22_Approves(m) /\ messages[m].direction = "DRAFT" =>
                 C23_OfDraft(m)]_vars

\* the enqueue of an approve failed and the handler's own run of the job
\* has sent the message
C23_Witness ==
    \E i \in 1..Len(approvals) :
        /\ approvals[i].response = "inline"
        /\ \E k \in 1..Len(job_log) :
              /\ job_log[k].inline
              /\ job_log[k].message_id = approvals[i].message_id
              /\ job_log[k].outcome = "ok"
        /\ messages[approvals[i].message_id].direction = "OUTBOUND"

----------------------------------------------------------------------------
(* C24, C25 *)

\* the contact of message m has no address for the channel of m
C24_NoAddress(m) ==
    LET c == contacts[messages[m].contact_id]
    IN  IF messages[m].channel = "SMS" THEN c.phone = {} ELSE c.email = {}

\* C24: for a message whose contact has no address for its channel, every
\* run of the delivery job ends with the error "contact has no email" (or
\* "... phone"), the provider is never called for it, the message stays
\* DRAFT and the contact's sends_today and last_sent_at stay as they were,
\* whatever DEMO_SEND and INLINE_APPROVE_SEND are
C24_NoAddressNoSend ==
    \A m \in MsgIds :
        C24_NoAddress(m) =>
            /\ \A k \in Runs(m) :
                  /\ job_log[k].outcome \in {"contact has no email",
                                              "contact has no phone"}
                  /\ ~job_log[k].flipped
                  /\ job_log[k].inc = 0
            /\ SenderCalls(m) = {}
            /\ messages[m].direction = "DRAFT"
            /\ contacts[messages[m].contact_id].sends_today = 0
            /\ contacts[messages[m].contact_id].last_sent_at = {}

\* C25: a message for which every call of the Sender failed (error
\* response, timeout or exception) is still DRAFT, no run of its job has
\* ended "ok" or added to sends_today, and, with real sending on, a message
\* a run has set OUTBOUND has a provider call that was accepted
C25_FailedSendStaysDraft ==
    \A m \in MsgIds :
        /\ SenderCalls(m) # {} /\ Accepted(m) = {} =>
              /\ messages[m].direction = "DRAFT"
              /\ \A k \in Runs(m) : /\ job_log[k].outcome # "ok"
                                     /\ job_log[k].inc = 0
        /\ ~settings.DEMO_SEND /\ (\E k \in Runs(m) : job_log[k].flipped) =>
              Accepted(m) # {}

----------------------------------------------------------------------------
(* C26 *)

\* the 'sent' NOTE rows of contact c
C26_SentNotes(c) ==
    {i \in 1..Len(timeline) :
        /\ timeline[i].contact_id = c
        /\ timeline[i].detail = "Message sent via worker (threaded)"}

\* what the ended runs of the job added to sends_today of contact c
C26_Increments(c) ==
    SumInc({k \in 1..Len(job_log) :
               /\ job_log[k].message_id \in MsgIds
               /\ messages[job_log[k].message_id].contact_id = c})

\* C26: what _finalize_send writes is committed together or not at all:
\* in every state a contact has as many 'sent' NOTE rows as increments of
\* sends_today made by the job, sends_today is that number, and a message
\* is OUTBOUND exactly if it carries a provider_message_id, which is exactly
\* if a run of its job ended "ok", and then last_sent_at is set
C26_FinalizationAtomic ==
    /\ \A c \in ContactIds :
          /\ Cardinality(C26_SentNotes(c)) = C26_Increments(c)
          /\ contacts[c].sends_today = C26_Increments(c)
    /\ \A m \in MsgIds :
          LET sent == \E k \in Runs(m) : job_log[k].outcome = "ok"
          IN  /\ (messages[m].direction = "OUTBOUND") = sent
              /\ (messages[m].meta.provider_message_id # {}) = sent
              /\ sent => contacts[messages[m].contact_id].last_sent_at # {}

\* one finalization was rolled back after the provider had accepted the
\* message, and a later run of the job committed
C26_Witness ==
    \E m \in MsgIds :
        /\ \A i \in SenderCalls(m) : outbox[i].status = "202"
        /\ \E k \in Runs(m) : job_log[k].outcome = "exception"
        /\ \E k \in Runs(m) : job_log[k].outcome = "ok" /\ job_log[k].inc = 1
        /\ C26_SentNotes(messages[m].contact_id) # {}

----------------------------------------------------------------------------
(* C27 *)

----------------------------------------------------------------------------
(* C28 *)

\* C28: no step of the system (inbound classification, lead form, any
\* dispatch, approve, the delivery job) takes a contact's dnc from true
\* back to false
C28_DncLatch ==
    [][\A c \in ContactIds : contacts[c].dnc => contacts'[c].dnc]_vars

C28_Detail(i, detail) == i \in 1..Len(timeline) /\ timeline[i].detail = detail

\* a contact marked by the classification of an inbound message is still
\* marked after a later lead update
C28_Witness ==
    \E c \in ContactIds :
        /\ contacts[c].dnc
        /\ \E i, j \in 1..Len(timeline) :
              /\ i < j
              /\ timeline[i].contact_id = c
              /\ timeline[j].contact_id = c
              /\ C28_Detail(i, "Client requested DNC")
              /\ C28_Detail(j, "Lead info updated via web form")

----------------------------------------------------------------------------
(* C29 *)

\* C29: when should_autosend raises for a malformed policy, the exception
\* reaches the caller of the call site and the draft the decision was made
\* for is in the store, DRAFT, at every call site
C29_DraftSurvivesBadPolicy ==
    \A i \in Dispatches :
        dispatch[i].stage = "raised" =>
            /\ dispatch[i].failure = "raised"
            /\ dispatch[i].draft_id \in MsgIds
            /\ messages[dispatch[i].draft_id].contact_id = dispatch[i].contact_id
            /\ messages[dispatch[i].draft_id].direction = "DRAFT"

----------------------------------------------------------------------------
(* C30 *)

\* message i has a subject
C30_HasSubject(i) == messages[i].meta.subject \notin {{}, {<<>>}}

\* the messages of the contact of m that have a subject
C30_Thread(m) ==
    {i \in MsgIds : /\ messages[i].contact_id = messages[m].contact_id
                    /\ C30_HasSubject(i)}

C30_StartsRe(subject) == subject # <<>> /\ subject[1] \in {"Re:", "RE:", "re:"}

\* C30: the subject the delivery job uses for a draft: the draft's own if
\* it has one, else that of the earliest message of the contact that has
\* one; prefixed with "Re: " for a non-initial draft unless it starts with
\* "re:" in any case, and unchanged for an initial draft
C30_SubjectResolution ==
    \A e \in Executors :
        ex[e].pc \in {"loaded", "sent"}
            /\ messages[ex[e].message_id].direction = "DRAFT"
            /\ C30_Thread(ex[e].message_id) # {} =>
        LET m    == ex[e].message_id
            from == IF C30_HasSubject(m) THEN m
                    ELSE CHOOSE i \in C30_Thread(m) : \A k \in C30_Thread(m) : i <= k
            base == Get(messages[from].meta.subject, <<>>)
        IN  ex[e].subject =
                IF messages[m].meta.intent = "initial_docs_request" \/ C30_StartsRe(base)
                THEN base ELSE <<"Re:">> \o base

----------------------------------------------------------------------------
(* C31 *)

\* the runs of the job that had finalized a message of contact c when
\* executor e began its run
C31_SentBefore(e, c) ==
    {k \in 1..ex[e].seen : /\ job_log[k].outcome = "ok"
                           /\ messages[job_log[k].message_id].contact_id = c}

\* C31: the parent the delivery job puts in the threading headers is the
\* draft's own reply_to_message_id when it has one; else, for a non-initial
\* draft, the provider message id of the send of the same contact that was
\* finalized last before the run began (none when there was no such send)
C31_ParentIsPrecedingSend ==
    \A e \in Executors :
        ex[e].pc \in {"loaded", "sent"} =>
            LET m    == messages[ex[e].message_id]
                done == C31_SentBefore(e, m.contact_id)
                last == CHOOSE k \in done : \A j \in done : j <= k
            IN  IF m.meta.reply_to_message_id # {}
                THEN ex[e].parent_pmid = m.meta.reply_to_message_id
                ELSE m.meta.intent # "initial_docs_request" =>
                        ex[e].parent_pmid =
                            IF done = {} THEN {}
                            ELSE messages[job_log[last].message_id]
                                     .meta.provider_message_id

----------------------------------------------------------------------------
(* C32, C33 *)

\* this step is the commit of _finalize_send for message m
C32_FinalizesNow(m) ==
    \E e \in Executors :
        /\ ex[e].pc = "sent"
        /\ ex[e].message_id = m
        /\ ex'[e].pc = "idle"
        /\ Len(job_log') = Len(job_log) + 1
        /\ job_log'[Len(job_log')].message_id = m
        /\ job_log'[Len(job_log')].outcome = "ok"

\* C32: no step removes a message row; a row that is OUTBOUND stays
\* OUTBOUND; a DRAFT row changes its direction only to OUTBOUND and only in
\* the step that commits _finalize_send for it
C32_DirectionMonotone ==
    [][/\ Len(messages') >= Len(messages)
       /\ \A m \in MsgIds :
             /\ messages[m].direction = "OUTBOUND" =>
                   messages'[m].direction = "OUTBOUND"
             /\ messages[m].direction = "DRAFT"
                   /\ messages'[m].direction # "DRAFT" =>
                   /\ messages'[m].direction = "OUTBOUND"
                   /\ C32_FinalizesNow(m)]_vars

\* a draft that was edited and then sent
C32_Witness ==
    \E m \in MsgIds :
        /\ messages[m].direction = "OUTBOUND"
        /\ messages[m].body = "edited"
        /\ \E k \in Runs(m) : job_log[k].flipped

\* C33: every step leaves the rows of the timeline as they are and in
\* their order, and at most appends rows after them
C33_TimelineAppendOnly ==
    [][/\ Len(timeline') >= Len(timeline)
       /\ \A i \in 1..Len(timeline) : timeline'[i] = timeline[i]]_vars

\* rows of a trigger, of an approval and of the finalizer, in that order
C33_Witness ==
    \E i, j, k \in 1..Len(timeline) :
        /\ i < j /\ j < k
        /\ timeline[i].type = "AUTO_SEND_DECISION"
        /\ timeline[j].detail = "Draft approved by user"
        /\ timeline[k].detail = "Message sent via worker (threaded)"

\* C34: a denied verdict carries no send time, and a send time returned with
\* an allowed verdict (next opening hour, or the end of the grace period) is
\* strictly later than now_utc.
C34_VerdictWellFormed ==
    dpc = "done" =>
        /\ ~verdict.allowed => verdict.when = {}
        /\ verdict.allowed => \A w \in verdict.when : w > ctx.now_utc

\* a draft decided after closing time is scheduled for the next day's
\* opening hour
C34_Witness ==
    /\ dpc = "done"
    /\ verdict.allowed
    /\ verdict.reasons = <<"scheduled_for_business_hours">>
    /\ \E w \in verdict.when : w - ctx.now_utc > 12 * SecondsPerHour

\* the runs of the delivery job that set a draft of contact c OUTBOUND
C35_Finalized(c) ==
    {k \in 1..Len(job_log) :
        job_log[k].flipped /\ messages[job_log[k].message_id].contact_id = c}

\* C35: with no force flag and no approval, the number of messages
\* finalized for one contact since sends_today was last reset never exceeds
\* a positive max_daily_sends, whatever the interleaving of dispatches and
\* delivery jobs.
C35_WithinDailyLimit ==
    \A c \in ContactIds :
        Get(org.max_daily_sends, 2) > 0 =>
            Cardinality(C35_Finalized(c)) <= Get(org.max_daily_sends, 2)

\* C36: with no force flag and no approval, a message is never finalized
\* for a contact less than a positive cooldown_hours after the previous one.
C36_CooldownBetweenSends ==
    [][\A c \in ContactIds :
          /\ Get(org.cooldown_hours, 22) > 0
          /\ contacts'[c].sends_today > contacts[c].sends_today
          => \A t \in contacts[c].last_sent_at :
                now - t >= Get(org.cooldown_hours, 22) * SecondsPerHour]_vars

\* C37: an approval given for a draft of a contact that is marked
\* do-not-contact, the draft never having been allowed by a dispatch, leads
\* to no call of the Sender.
C37_NoSendAfterDnc ==
    \A k \in 1..Len(approvals) :
        /\ approvals[k].dnc
        /\ \A i \in 1..Len(dispatch) :
              dispatch[i].draft_id = approvals[k].message_id => ~dispatch[i].allowed
        => SenderCalls(approvals[k].message_id) = {}

\* the jobs held for message m, on the queue or on the schedule
C38_Jobs(m) ==
    {k \in 1..Len(queue) : queue[k].message_id = m}
        \cup {j \in scheduled : j.job.message_id = m}

\* C38: while a contact is marked do-not-contact no trigger gets a delivery
\* job for it: the only trigger that still stores a draft is
\* react_to_inbound, its decision is the denial contact_on_dnc whatever the
\* force flags, and a denied dispatch never has a job.
C38_DncTriggersRequestNothing ==
    /\ [](\A i \in 1..Len(dispatch) :
            dispatch[i].reasons = <<"contact_on_dnc">> =>
                /\ ~dispatch[i].allowed
                /\ dispatch[i].stage = "done"
                /\ C38_Jobs(dispatch[i].draft_id) = {})
    /\ [][\A c \in ContactIds : contacts[c].dnc =>
            /\ \A m \in (Len(messages) + 1)..Len(messages') :
                  messages'[m].contact_id = c /\ messages'[m].direction = "DRAFT" =>
                      \E i \in (Len(dispatch) + 1)..Len(dispatch') :
                          dispatch'[i].draft_id = m /\ dispatch'[i].site = "inbound"
            /\ \A i \in (Len(dispatch) + 1)..Len(dispatch') :
                  dispatch'[i].contact_id = c =>
                      /\ dispatch'[i].site = "inbound"
                      /\ dispatch'[i].reasons = <<"contact_on_dnc">>]_vars

\* every trigger call was made for a do-not-contact contact with the
\* follow-up force flag set: one was answered by a denied draft of
\* react_to_inbound, another by an early return, and no job is held
C38_Witness ==
    /\ \A c \in ContactIds : contacts[c].dnc
    /\ \A k \in 1..Len(timeline) : timeline[k].detail # "Client requested DNC"
    /\ env.AUTOSEND_FOLLOWUPS_ALWAYS = "TRUE"
    /\ calls = MaxCalls
    /\ Len(dispatch) = 1
    /\ dispatch[1].reasons = <<"contact_on_dnc">>
    /\ queue = <<>> /\ scheduled = {}

\* C39: a job is put on the queue or the schedule only for a draft whose
\* insert is committed, so no run of the delivery job for a dispatched draft
\* ends with "message not found".
C39_JobFindsRow ==
    /\ \A k \in 1..Len(queue) : queue[k].message_id \in MsgIds
    /\ \A j \in scheduled : j.job.message_id \in MsgIds
    /\ \A k \in 1..Len(job_log) : job_log[k].outcome # "message not found"

\* a reply drafted by react_to_inbound was scheduled, became due, and the
\* worker that took the job found the row and finalized it
C39_Witness ==
    \E i \in 1..Len(dispatch) :
        /\ dispatch[i].site = "inbound"
        /\ dispatch[i].at = "ok"
        /\ messages[dispatch[i].draft_id].direction = "OUTBOUND"
        /\ \E k \in Runs(dispatch[i].draft_id) : job_log[k].outcome = "ok"

\* a job for draft m was put on the queue or on the schedule by its dispatch
C40_Requested(m) ==
    \E i \in 1..Len(dispatch) :
        /\ dispatch[i].draft_id = m
        /\ dispatch[i].at = "ok" \/ dispatch[i].imm = "ok"

====
